---- MODULE Spec2Model ----
(***************************************************************************)
(* Stream-to-Handshake lowering (lib/Conversion/StreamToHandshake).        *)
(*                                                                         *)
(* Two layers are modelled:                                                *)
(*  - the pass level: the SymbolUniquer and the way the pass hands it to   *)
(*    the per-operator patterns (SpecUniq);                                *)
(*  - the circuit level: every per-operator builder is a graph constructor *)
(*    (a function from node names to handshake nodes, translated from the  *)
(*    builder's code), and the graph is run under the token semantics of   *)
(*    the handshake operations it is built from (SpecCreate, SpecMap,      *)
(*    SpecFilter, SpecReduce).                                             *)
(***************************************************************************)
EXTENDS Integers, Sequences, FiniteSets, TLC

VARIABLES
  \* ---- pass level (SymbolUniquer) ----
  pc,         \* position of StreamToHandshakePass::runOnOperation
  symbols,    \* symbol names defined in the module before the pass
  usedNames,  \* SymbolUniquer::usedNames as the patterns' reference reads it
  dangling,   \* TRUE once the object behind the patterns' reference is destroyed
  synth,      \* names returned by getUniqueSymName, in call order, with the op
  mod,        \* the module under conversion: input program and lowered IR
  \* ---- circuit level (one synthesized unit) ----
  op,         \* the stream operator instance the unit was built from
  slot,       \* slot[<<n, i>>]: the token waiting at operand i of node n, if any
  buf,        \* buf[n]: contents of sequential buffer n, next to leave first
  fed,        \* fed[a]: tokens the environment supplied to block argument a
  outs        \* outs[i]: tokens the consumer took from unit output i, in order

passVars == <<pc, symbols, usedNames, dangling, synth, mod>>
unitVars == <<op, slot, buf, fed, outs>>
vars ==
  <<pc, symbols, usedNames, dangling, synth, mod, op, slot, buf, fed, outs>>

(***************************************************************************)
(* Bounds                                                                  *)
(***************************************************************************)
MaxOps == 2      \* stream operators lowered in one pass run
MaxLen == 3      \* length of a create literal list
MaxIn == 3       \* activations supplied to a unit's input stream
MaxInit == 1     \* init-control tokens supplied to a unit
MaxOut == MaxLen + 2       \* tokens the consumer takes from one output

Last(s) == s[Len(s)]

(***************************************************************************)
(* Names are character sequences, so that getBareOpName and formatv act on *)
(* the characters as the code does.                                        *)
(***************************************************************************)
StreamMap == <<"s","t","r","e","a","m",".","m","a","p">>
StreamFilter == <<"s","t","r","e","a","m",".","f","i","l","t","e","r">>
StreamReduce == <<"s","t","r","e","a","m",".","r","e","d","u","c","e">>
StreamCreate == <<"s","t","r","e","a","m",".","c","r","e","a","t","e">>
StreamSplit == <<"s","t","r","e","a","m",".","s","p","l","i","t">>
StreamCombine == <<"s","t","r","e","a","m",".","c","o","m","b","i","n","e">>
StreamSink == <<"s","t","r","e","a","m",".","s","i","n","k">>

\* The operators that own a StreamOpLowering pattern, i.e. a SymbolUniquer
\* reference.
OpNames ==
  {StreamMap, StreamFilter, StreamReduce, StreamCreate, StreamSplit,
   StreamCombine, StreamSink}

DigitChar == <<"0","1","2","3","4","5","6","7","8","9">>

RECURSIVE Decimal(_)
Decimal(n) ==
  IF n < 10 THEN <<DigitChar[n + 1]>>
  ELSE Decimal(n \div 10) \o <<DigitChar[(n % 10) + 1]>>

\* std::replace(name.begin(), name.end(), '.', '_')
getBareOpName_KeepDots(opName) == opName

getBareOpName(opName) ==
  [i \in DOMAIN opName |-> IF opName[i] = "." THEN "_" ELSE opName[i]]

\* llvm::formatv("{0}_{1}", opName, cnt)
formatv(opName, cnt) == opName \o <<"_">> \o Decimal(cnt)

\* while (usedNames.contains(name)) name = formatv(opName, cnt++)
RECURSIVE uniqueLoop(_, _, _, _)
uniqueLoop(used, opName, name, cnt) ==
  IF name \in used
    THEN uniqueLoop(used, opName, formatv(opName, cnt), cnt + 1)
    ELSE name

getUniqueSymName_FromZero(used, o) ==
  LET opName == getBareOpName(o) IN uniqueLoop(used, opName, opName, 0)

\* The name getUniqueSymName returns on used set `used`; the caller adds it.
getUniqueSymName(used, o) ==
  LET opName == getBareOpName(o) IN uniqueLoop(used, opName, opName, 1)

addSymbol(used, name) == used \cup {name}

\* Symbol names a module may define before the pass runs.
SymbolUniverse ==
  { <<"m","a","i","n">>,
    getBareOpName(StreamMap),
    formatv(getBareOpName(StreamMap), 1) }

(***************************************************************************)
(* Pass level.                                                             *)
(***************************************************************************)
PassInit ==
  /\ pc = "start"
  /\ symbols \in SUBSET SymbolUniverse
  /\ usedNames = {}
  /\ dangling = FALSE
  /\ synth = <<>>
  /\ mod = [next |-> 0]

PassIdle ==
  /\ pc = "idle"
  /\ symbols = {}
  /\ usedNames = {}
  /\ dangling = FALSE
  /\ synth = <<>>
  /\ mod = [next |-> 0]

\* SymbolUniquer symbolUniquer(getOperation()): addDefinitions(top).
ConstructUniquer ==
  /\ pc = "start"
  /\ usedNames' = symbols
  /\ pc' = "constructed"
  /\ UNCHANGED <<symbols, dangling, synth, mod>>
  /\ UNCHANGED unitVars

\* populateStreamToHandshakePatterns(typeConverter, symbolUniquer, patterns):
\* the uniquer is taken BY VALUE, every StreamOpLowering pattern stores a
\* reference to that parameter, and the parameter is destroyed on return.
\* All seven patterns refer to the same, now destroyed, object.
populateStreamToHandshakePatterns ==
  /\ pc = "constructed"
  /\ dangling' = TRUE
  /\ pc' = "converting"
  /\ UNCHANGED <<symbols, usedNames, synth, mod>>
  /\ UNCHANGED unitVars

\* Reading a destroyed SmallSet is undefined: its storage may still hold the
\* old contents, or have been reused and have lost entries (any of them, one
\* step at a time).
StorageReused ==
  /\ pc = "converting"
  /\ dangling
  /\ \E lost \in usedNames : usedNames' = usedNames \ {lost}
  /\ UNCHANGED <<pc, symbols, dangling, synth, mod>>
  /\ UNCHANGED unitVars

\* One matchAndRewrite of a StreamOpLowering pattern, as far as names go:
\* createFuncOp(r, symbolUniquer.getUniqueSymName(op), ...).
LowerOp(o) ==
  /\ pc = "converting"
  /\ Len(synth) < MaxOps
  /\ LET name == getUniqueSymName(usedNames, o) IN
       /\ usedNames' = addSymbol(usedNames, name)
       /\ synth' = Append(synth, [op |-> o, name |-> name])
  /\ UNCHANGED <<pc, symbols, dangling, mod>>
  /\ UNCHANGED unitVars

\* The names-only view serves modules of any content.
PassNext ==
  \/ ConstructUniquer
  \/ populateStreamToHandshakePatterns
  \/ StorageReused
  \/ \E o \in OpNames : LowerOp(o)

(***************************************************************************)
(* Circuit level: the handshake region a builder constructs.               *)
(*                                                                         *)
(* A region is a function from node names (the builder's local variable    *)
(* names) to nodes.  A value is <<node, result index>> (0-based, as in     *)
(* getResult(i)); ins[i + 1] is getOperand(i).  i1 values are 0 and 1,     *)
(* the control token is "none", a tuple is <<data, eos>>.                  *)
(***************************************************************************)
Node(k, i, a) == [kind |-> k, ins |-> i, attr |-> a]
R(n, i) == <<n, i>>
V(n) == <<n, 0>>
NoAttr == [none |-> TRUE]

\* entryBlock->getArgument(i); ty is "tuple", "none" (stream control) or
\* "init" (the trailing init control, also of NoneType).
Arg(ty) == Node("arg", <<>>, [type |-> ty])
UnpackOp(tuple) == Node("unpack", <<tuple>>, NoAttr)
PackOp(a, b) == Node("pack", <<a, b>>, NoAttr)
ConstantOp(value, ctrl) == Node("constant", <<ctrl>>, [value |-> value])
ConditionalBranchOp(cond, data) == Node("cond_br", <<cond, data>>, NoAttr)
trueResult(n) == <<n, 0>>
falseResult(n) == <<n, 1>>
BufferOp(slots, in, initValues) ==
  Node("buffer", <<in>>, [slots |-> slots, initValues |-> initValues])
MergeOp(ins) == Node("merge", ins, NoAttr)
MuxOp(select, ins) == Node("mux", <<select>> \o ins, NoAttr)
OrIOp(a, b) == Node("ori", <<a, b>>, NoAttr)
CmpIOp_eq(a, b) == Node("cmpi_eq", <<a, b>>, NoAttr)
AddIOp(a, b) == Node("addi", <<a, b>>, NoAttr)
ReturnOp(ins) == Node("return", ins, NoAttr)
JoinOp(ins) == Node("join", ins, NoAttr)

Reverse(s) == [i \in 1..Len(s) |-> s[Len(s) + 1 - i]]

(***************************************************************************)
(* Operator bodies.  A body arrives already lowered to dataflow form by    *)
(* the imperative-to-dataflow delegate: its data results are a function of *)
(* its data arguments, its constants are triggered by the control          *)
(* argument, and the control operand of its terminator is the control      *)
(* argument itself.  Apply gets the values of the arguments the body      *)
(* reads.                                                                  *)
(***************************************************************************)
Apply(fn, args) ==
  CASE fn = "inc" -> args[1] + 1
    [] fn = "double" -> args[1] + args[1]
    [] fn = "isOdd" -> args[1] % 2
    [] fn = "isPos" -> IF args[1] > 0 THEN 1 ELSE 0
    [] fn = "add" -> args[1] + args[2]
    [] fn = "shl1_add" -> 2 * args[1] + args[2]
    [] fn = "last" -> args[1]

\* The data arguments the body reads: (acc, x) -> x reads the second only.
BodyReads(fn, dataArgs) == IF fn = "last" THEN <<dataArgs[2]>> ELSE dataArgs

\* Whether the body holds a constant, and so consumes the control token.
BodyUsesCtrl(fn) == fn \in {"inc", "isOdd", "isPos", "shl1_add"}

\* mergeBlocks(lambda, entryBlock, args): the body's operations, with the
\* lambda's block arguments replaced by args.
Lambda(fn, dataArgs, ctrl) ==
  Node("body",
       BodyReads(fn, dataArgs) \o (IF BodyUsesCtrl(fn) THEN <<ctrl>> ELSE <<>>),
       [fn |-> fn, arity |-> Len(BodyReads(fn, dataArgs))])

(***************************************************************************)
(* The builders: the region each matchAndRewrite constructs, node by node. *)
(* The nodes keep the names of the builder's local variables.              *)
(***************************************************************************)
\* MapOpLowering: pack(oldTerm->getOperand(0), eos).
MapTupleOut_Swapped == PackOp(R("unpack", 1), V("lambda"))

MapTupleOut == PackOp(V("lambda"), R("unpack", 1))

MapOpLowering(o) ==
  ( "tupleIn" :> Arg("tuple") @@ "streamCtrl" :> Arg("none")
    @@ "initCtrl" :> Arg("init")
    @@ "unpack" :> UnpackOp(V("tupleIn"))
    \* data = unpack.getResult(0), eos = unpack.getResult(1)
    @@ "lambda" :> Lambda(o.fn, <<R("unpack", 0)>>, V("streamCtrl"))
    @@ "tupleOut" :> MapTupleOut
    \* {tupleOut, oldTerm->getOperand(1), initCtrl}
    @@ "newTerm" :> ReturnOp(<<V("tupleOut"), V("streamCtrl"), V("initCtrl")>>) )

\* FilterOpLowering: condOrEos = ori(cond, eos).
FilterCondOrEos_CondOnly == OrIOp(V("lambda"), V("lambda"))

FilterCondOrEos == OrIOp(V("lambda"), R("unpack", 1))

\* FilterOpLowering: {dataBr.trueResult(), ctrlBr.trueResult(), initCtrl}.
FilterTermOperands_UngatedCtrl ==
  <<trueResult("dataBr"), V("streamCtrl"), V("initCtrl")>>

FilterTermOperands_InitGated ==
  <<trueResult("dataBr"), trueResult("ctrlBr"), trueResult("ctrlBr")>>

FilterTermOperands ==
  <<trueResult("dataBr"), trueResult("ctrlBr"), V("initCtrl")>>

FilterOpLowering(o) ==
  ( "tupleIn" :> Arg("tuple") @@ "streamCtrl" :> Arg("none")
    @@ "initCtrl" :> Arg("init")
    @@ "unpack" :> UnpackOp(V("tupleIn"))
    \* cond = oldTerm->getOperand(0), ctrl = oldTerm->getOperand(1)
    @@ "lambda" :> Lambda(o.fn, <<R("unpack", 0)>>, V("streamCtrl"))
    \* pack(data, eos)
    @@ "tupleOut" :> PackOp(R("unpack", 0), R("unpack", 1))
    @@ "condOrEos" :> FilterCondOrEos
    @@ "dataBr" :> ConditionalBranchOp(V("condOrEos"), V("tupleOut"))
    \* Makes sure we only emit Ctrl when data is produced
    @@ "ctrlBr" :> ConditionalBranchOp(V("condOrEos"), V("streamCtrl"))
    @@ "newTerm" :> ReturnOp(FilterTermOperands) )

\* ReduceOpLowering: buffer->setAttr("initValues", {initValue}).
ReduceBufferInitValues_Zero(o) == <<0>>

ReduceBufferInitValues(o) == <<o.initValue>>

\* ReduceOpLowering: select->setAttr("initValues", {1, 0}); "First select
\* the tupleOut, afterwards the one with the EOS signal".
ReduceSelectInitValues_Swapped == <<0, 1>>

ReduceSelectInitValues_One == <<1>>

ReduceSelectInitValues == <<1, 0>>

\* ReduceOpLowering: MuxOp(select, {ctrlBr.trueResult(), ctrlBr.trueResult()}).
ReduceCtrlOutOperands_Ungated == <<V("streamCtrl"), V("streamCtrl")>>

ReduceCtrlOutOperands == <<trueResult("ctrlBr"), trueResult("ctrlBr")>>

ReduceOpLowering(o) ==
  ( "tupleIn" :> Arg("tuple") @@ "streamCtrl" :> Arg("none")
    @@ "initCtrl" :> Arg("init")
    @@ "unpack" :> UnpackOp(V("tupleIn"))
    \* BufferOp(resultType, 1, oldTerm->getOperand(0), seq)
    @@ "buffer" :> BufferOp(1, V("lambda"), ReduceBufferInitValues(o))
    @@ "dataBr" :> ConditionalBranchOp(R("unpack", 1), V("buffer"))
    @@ "eosBr" :> ConditionalBranchOp(R("unpack", 1), R("unpack", 1))
    \* cond_br(eos, oldTerm->getOperand(1))
    @@ "ctrlBr" :> ConditionalBranchOp(R("unpack", 1), V("streamCtrl"))
    \* mergeBlocks(lambda, entryBlock, {dataBr.falseResult(), data, streamCtrl})
    @@ "lambda" :> Lambda(o.fn, <<falseResult("dataBr"), R("unpack", 0)>>,
                          V("streamCtrl"))
    @@ "eosFalse" :> ConstantOp(0, trueResult("ctrlBr"))
    @@ "tupleOutVal" :> PackOp(trueResult("dataBr"), V("eosFalse"))
    @@ "tupleOutEOS" :> PackOp(trueResult("dataBr"), trueResult("eosBr"))
    @@ "bubble" :> ConstantOp(0, trueResult("ctrlBr"))
    \* BufferOp(i32, 2, bubble, seq)
    @@ "select" :> BufferOp(2, V("bubble"), ReduceSelectInitValues)
    @@ "tupleOut" :> MuxOp(V("select"), <<V("tupleOutVal"), V("tupleOutEOS")>>)
    @@ "ctrlOut" :> MuxOp(V("select"), ReduceCtrlOutOperands)
    @@ "newTerm" :> ReturnOp(<<V("tupleOut"), V("ctrlOut"), V("initCtrl")>>) )

\* CreateOpLowering: cnt->setAttr("initValues", {0}): "initialize cnt to 0
\* to indicate that 0 elements were emitted".
CreateCntInitValues_One == <<1>>

CreateCntInitValues == <<0>>

\* CreateOpLowering: "The buffer works in reverse": initValues are
\* llvm::reverse(op.values()).
CreateDataInitValues_NotReversed(o) == o.values

CreateDataInitValues(o) == Reverse(o.values)

\* CreateOpLowering: fst->setAttr("initValues", {1}): "Only use in ctrl
\* once".
CreateFstInitValues_Zero == <<0>>

CreateFstInitValues == <<1>>

\* CreateOpLowering: rewriter.replaceOp(tmpCtrl, {ctrl}): the input of the
\* loop buffer, first a NeverOp, is the result of the merge.
CreateCtrlBufInput_Gate == trueResult("useCtrl")

CreateCtrlBufInput == V("ctrl")

\* CreateOpLowering::matchAndRewrite; bufSize = op.values().size().
CreateOpLowering(o) ==
  ( "ctrlIn" :> Arg("init")
    \* Only use in ctrl once
    @@ "falseVal" :> ConstantOp(0, V("ctrlIn"))
    @@ "fst" :> BufferOp(1, V("falseVal"), CreateFstInitValues)
    @@ "useCtrl" :> ConditionalBranchOp(V("fst"), V("ctrlIn"))
    \* Ctrl "looping": ctrlBuf's NeverOp input is replaced by ctrl; the
    \* buffer is given no initValues attribute.
    @@ "ctrlBuf" :> BufferOp(1, CreateCtrlBufInput, <<>>)
    @@ "ctrl" :> MergeOp(<<trueResult("useCtrl"), V("ctrlBuf")>>)
    @@ "bubble" :> ConstantOp(0, V("ctrl"))
    @@ "dataBuf" :> BufferOp(Len(o.values), V("bubble"), CreateDataInitValues(o))
    \* cnt.setOperand(newCnt)
    @@ "cnt" :> BufferOp(1, V("newCnt"), CreateCntInitValues)
    @@ "one" :> ConstantOp(1, V("ctrl"))
    @@ "sizeConst" :> ConstantOp(Len(o.values), V("ctrl"))
    @@ "finished" :> CmpIOp_eq(V("cnt"), V("sizeConst"))
    @@ "newCnt" :> AddIOp(V("cnt"), V("one"))
    @@ "tupleOut" :> PackOp(V("dataBuf"), V("finished"))
    @@ "term" :> ReturnOp(<<V("tupleOut"), V("ctrl")>>) )

\* SplitOpLowering: the body has one data result per output stream; its
\* j-th result is oldTerm->getOperand(j - 1), computed by its own chain of
\* operations from the data argument.  The region has one node per result.
SplitLambdaNames == <<"lambda1", "lambda2">>
SplitPackNames == <<"pack1", "pack2">>

\* for (auto oldOp : oldTerm->getOperands().drop_back()): the j-th operand.
SplitOldOp_Reversed(o, j) == V(SplitLambdaNames[Len(o.fns) + 1 - j])

SplitOldOp(o, j) == V(SplitLambdaNames[j])

\* pack(oldOp, eos), pushed with oldTerm->getOperands().back(); initCtrl
\* is pushed last.
SplitTermOperands(o) ==
  [i \in 1..(2 * Len(o.fns) + 1) |->
     IF i = 2 * Len(o.fns) + 1 THEN V("initCtrl")
     ELSE IF i % 2 = 1 THEN V(SplitPackNames[(i + 1) \div 2])
     ELSE V("streamCtrl")]

SplitOpLowering(o) ==
  ( "tupleIn" :> Arg("tuple") @@ "streamCtrl" :> Arg("none")
    @@ "initCtrl" :> Arg("init")
    @@ "unpack" :> UnpackOp(V("tupleIn")) )
  @@ [n \in {SplitLambdaNames[j] : j \in 1..Len(o.fns)} |->
        LET j == CHOOSE j \in 1..Len(o.fns) : SplitLambdaNames[j] = n IN
          Lambda(o.fns[j], <<R("unpack", 0)>>, V("streamCtrl"))]
  @@ [n \in {SplitPackNames[j] : j \in 1..Len(o.fns)} |->
        LET j == CHOOSE j \in 1..Len(o.fns) : SplitPackNames[j] = n IN
          PackOp(SplitOldOp(o, j), R("unpack", 1))]
  @@ ( "newTerm" :> ReturnOp(SplitTermOperands(o)) )

\* CombineOpLowering: the entry block has arguments (tupleIn, streamCtrl)
\* per input stream and the init control last; o.arity is the number of
\* input streams.
CombineTupleInNames == <<"tupleIn1", "tupleIn2">>
CombineStreamCtrlNames == <<"streamCtrl1", "streamCtrl2">>
CombineUnpackNames == <<"unpack1", "unpack2">>
CombineOrNames == <<"eos1", "eos2">>

\* buildReduceTree<arith::OrIOp>(eosInputs): res = values.front(); then
\* res = ori(res, val) for every further val.  The value after i inputs.
CombineEos_FirstOnly(i) == R(CombineUnpackNames[1], 1)

CombineEos(i) ==
  IF i = 1 THEN R(CombineUnpackNames[1], 1) ELSE V(CombineOrNames[i])

\* blockInputs: the data of every input in input order, then ctrlJoin.
CombineBlockInputs_Reversed(o) ==
  [i \in 1..o.arity |-> R(CombineUnpackNames[o.arity + 1 - i], 0)]

CombineBlockInputs(o) == [i \in 1..o.arity |-> R(CombineUnpackNames[i], 0)]

\* only execute region when ALL inputs are ready
CombineCtrlJoin(o) ==
  JoinOp([i \in 1..o.arity |-> V(CombineStreamCtrlNames[i])])

CombineOpLowering(o) ==
  [n \in {CombineTupleInNames[i] : i \in 1..o.arity} |-> Arg("tuple")]
  @@ [n \in {CombineStreamCtrlNames[i] : i \in 1..o.arity} |-> Arg("none")]
  @@ ( "initCtrl" :> Arg("init") )
  @@ [n \in {CombineUnpackNames[i] : i \in 1..o.arity} |->
        LET i == CHOOSE i \in 1..o.arity : CombineUnpackNames[i] = n IN
          UnpackOp(V(CombineTupleInNames[i]))]
  @@ ( "ctrlJoin" :> CombineCtrlJoin(o) )
  @@ ( "lambda" :> Lambda(o.fn, CombineBlockInputs(o), V("ctrlJoin")) )
  @@ [n \in {CombineOrNames[i] : i \in 2..o.arity} |->
        LET i == CHOOSE i \in 2..o.arity : CombineOrNames[i] = n IN
          OrIOp(CombineEos(i - 1), R(CombineUnpackNames[i], 1))]
  @@ ( "pack" :> PackOp(V("lambda"), CombineEos(o.arity))
       \* {pack, oldTerm->getOperands().back(), initCtrl}
       @@ "newTerm" :> ReturnOp(<<V("pack"), V("ctrlJoin"), V("initCtrl")>>) )

\* SinkOpLowering: "Don't use the values to ensure that handshake::SinkOps
\* will be inserted"; the terminator returns the init control alone.
SinkTermOperands_ForwardCtrl == <<V("streamCtrl")>>

SinkTermOperands == <<V("initCtrl")>>

SinkOpLowering(o) ==
  ( "tupleIn" :> Arg("tuple") @@ "streamCtrl" :> Arg("none")
    @@ "initCtrl" :> Arg("init")
    @@ "newTerm" :> ReturnOp(SinkTermOperands) )

(***************************************************************************)
(* Inputs.                                                                 *)
(***************************************************************************)
Data == {1, 2}
I1 == {0, 1}

MapOps == {[kind |-> "map", fn |-> f] : f \in {"inc", "double"}}
FilterOps == {[kind |-> "filter", fn |-> f] : f \in {"isOdd", "isPos"}}
ReduceOps ==
  {[kind |-> "reduce", fn |-> "add", initValue |-> 0],
   [kind |-> "reduce", fn |-> "shl1_add", initValue |-> 1]}
\* reduce with the body (acc, x) -> x, the last element of the stream.
ReduceLastOps == {[kind |-> "reduce", fn |-> "last", initValue |-> 0]}
\* create([5]), create([5, 6]), create([5, 6, 7]), ...
CreateOps ==
  {[kind |-> "create", values |-> [i \in 1..n |-> i + 4]] :
     n \in 1..MaxLen}

\* split with bodies x -> (x + 1, 2 * x) and x -> (2 * x).
SplitOps ==
  {[kind |-> "split", fns |-> <<"inc", "double">>],
   [kind |-> "split", fns |-> <<"double">>]}

\* combine of one stream with x -> 2 * x, and of two streams with
\* (a, b) -> a + b and (a, b) -> 2 * a + b.
CombineOps ==
  {[kind |-> "combine", arity |-> 1, fn |-> "double"],
   [kind |-> "combine", arity |-> 2, fn |-> "add"],
   [kind |-> "combine", arity |-> 2, fn |-> "shl1_add"]}

SinkOps == {[kind |-> "sink"]}

AllOps ==
  MapOps \cup FilterOps \cup ReduceOps \cup ReduceLastOps \cup CreateOps
    \cup SplitOps \cup CombineOps \cup SinkOps

\* The pattern that matches operator o.
Lower(o) ==
  CASE o.kind = "map" -> MapOpLowering(o)
    [] o.kind = "filter" -> FilterOpLowering(o)
    [] o.kind = "reduce" -> ReduceOpLowering(o)
    [] o.kind = "create" -> CreateOpLowering(o)
    [] o.kind = "split" -> SplitOpLowering(o)
    [] o.kind = "combine" -> CombineOpLowering(o)
    [] o.kind = "sink" -> SinkOpLowering(o)

(***************************************************************************)
(* Token semantics of a region.                                            *)
(*                                                                         *)
(* Every operand of every node holds at most one token.  A node fires when *)
(* the operands it needs hold a token and every consumer of the result it  *)
(* writes is free; the result token is handed to each consumer of the      *)
(* value (what the fork inserted by materializeForksAndSinks does) and is  *)
(* dropped when the value has no consumer (the inserted sink).             *)
(***************************************************************************)
Operands(u) ==
  UNION {{<<n, i>> : i \in 1..Len(u[n].ins)} : n \in DOMAIN u}

Uses(u, v) == {x \in Operands(u) : u[x[1]].ins[x[2]] = v}

Buffers(u) == {n \in DOMAIN u : u[n].kind = "buffer"}

Args(u) == {n \in DOMAIN u : u[n].kind = "arg"}

ReturnNode(u) == CHOOSE n \in DOMAIN u : u[n].kind = "return"

\* The regions of all operators considered, and the uses of their values.
UnitOf == [o \in AllOps |-> Lower(o)]
UsesOf ==
  [o \in AllOps |->
     [v \in (DOMAIN UnitOf[o]) \X {0, 1} |-> Uses(UnitOf[o], v)]]

KindsOf ==
  [o \in AllOps |->
     [k \in {UnitOf[o][n].kind : n \in DOMAIN UnitOf[o]} |->
        {n \in DOMAIN UnitOf[o] : UnitOf[o][n].kind = k}]]

\* The nodes of kind k in the unit under execution.
Nodes(k) == IF k \in DOMAIN KindsOf[op] THEN KindsOf[op][k] ELSE {}

\* The unit under execution: the region built from op.
Unit == UnitOf[op]
UsesV(v) == UsesOf[op][v]

Has(n, i) == slot[<<n, i>>] # <<>>
Tok(n, i) == slot[<<n, i>>][1]
AllIn(n) == \A i \in 1..Len(Unit[n].ins) : Has(n, i)
Free(v) == \A x \in UsesV(v) : slot[x] = <<>>

\* s with the operands in X emptied, then tok handed to every use of v.
Move(s, X, v, tok) ==
  LET U == UsesV(v) IN
    [x \in DOMAIN s |->
       IF x \in U THEN <<tok>>
       ELSE IF x \in X THEN <<>> ELSE s[x]]

InsOf(n) == {<<n, i>> : i \in 1..Len(Unit[n].ins)}

\* A sequential buffer leaves its last initial value first: initValues are
\* listed from the input stage to the output stage.
BufferInit(initValues) == Reverse(initValues)

\* The environment supplies a token to block argument a.
Feed(a, tok, bound) ==
  /\ Len(fed[a]) < bound
  /\ Free(V(a))
  /\ slot' = Move(slot, {}, V(a), tok)
  /\ fed' = [fed EXCEPT ![a] = Append(@, tok)]
  /\ UNCHANGED <<op, buf, outs>>
  /\ UNCHANGED passVars

\* One (data, eos) payload of the input stream.
FeedPayload(a, d, e) ==
  /\ Unit[a].attr.type = "tuple"
  /\ Feed(a, <<d, e>>, MaxIn)

\* One stream-control token of the input stream.
FeedStreamCtrl(a) ==
  /\ Unit[a].attr.type = "none"
  /\ Feed(a, "none", MaxIn)

\* One init-control token.
FeedInitCtrl(a) ==
  /\ Unit[a].attr.type = "init"
  /\ Feed(a, "none", MaxInit)

\* handshake.unpack: result 0 is the data, result 1 the eos flag.
FireUnpack(n) ==
  /\ Unit[n].kind = "unpack"
  /\ Has(n, 1)
  /\ Free(R(n, 0)) /\ Free(R(n, 1))
  /\ slot' = Move(Move(slot, InsOf(n), R(n, 0), Tok(n, 1)[1]),
                  {}, R(n, 1), Tok(n, 1)[2])
  /\ UNCHANGED <<op, buf, fed, outs>>
  /\ UNCHANGED passVars

\* handshake.pack
FirePack(n) ==
  /\ Unit[n].kind = "pack"
  /\ AllIn(n)
  /\ Free(V(n))
  /\ slot' = Move(slot, InsOf(n), V(n), <<Tok(n, 1), Tok(n, 2)>>)
  /\ UNCHANGED <<op, buf, fed, outs>>
  /\ UNCHANGED passVars

\* The operator body: one result from one token of every argument.
FireBody(n) ==
  /\ Unit[n].kind = "body"
  /\ AllIn(n)
  /\ Free(V(n))
  /\ slot' = Move(slot, InsOf(n), V(n),
                  Apply(Unit[n].attr.fn,
                        [i \in 1..Unit[n].attr.arity |-> Tok(n, i)]))
  /\ UNCHANGED <<op, buf, fed, outs>>
  /\ UNCHANGED passVars

\* arith.ori on i1
FireOrI(n) ==
  /\ Unit[n].kind = "ori"
  /\ AllIn(n)
  /\ Free(V(n))
  /\ slot' = Move(slot, InsOf(n), V(n),
                  IF Tok(n, 1) = 1 \/ Tok(n, 2) = 1 THEN 1 ELSE 0)
  /\ UNCHANGED <<op, buf, fed, outs>>
  /\ UNCHANGED passVars

\* arith.cmpi eq
FireCmpI(n) ==
  /\ Unit[n].kind = "cmpi_eq"
  /\ AllIn(n)
  /\ Free(V(n))
  /\ slot' = Move(slot, InsOf(n), V(n), IF Tok(n, 1) = Tok(n, 2) THEN 1 ELSE 0)
  /\ UNCHANGED <<op, buf, fed, outs>>
  /\ UNCHANGED passVars

\* arith.addi
FireAddI(n) ==
  /\ Unit[n].kind = "addi"
  /\ AllIn(n)
  /\ Free(V(n))
  /\ slot' = Move(slot, InsOf(n), V(n), Tok(n, 1) + Tok(n, 2))
  /\ UNCHANGED <<op, buf, fed, outs>>
  /\ UNCHANGED passVars

\* handshake.constant: one value per control token.
FireConstant(n) ==
  /\ Unit[n].kind = "constant"
  /\ Has(n, 1)
  /\ Free(V(n))
  /\ slot' = Move(slot, InsOf(n), V(n), Unit[n].attr.value)
  /\ UNCHANGED <<op, buf, fed, outs>>
  /\ UNCHANGED passVars

\* handshake.cond_br: the data token leaves on trueResult when the
\* condition is 1 and on falseResult when it is 0.
FireCondBr(n) ==
  /\ Unit[n].kind = "cond_br"
  /\ AllIn(n)
  /\ LET out == IF Tok(n, 1) = 1 THEN trueResult(n) ELSE falseResult(n) IN
       /\ Free(out)
       /\ slot' = Move(slot, InsOf(n), out, Tok(n, 2))
  /\ UNCHANGED <<op, buf, fed, outs>>
  /\ UNCHANGED passVars

\* handshake.merge: forwards a token of any operand that holds one.
FireMerge(n) ==
  /\ Unit[n].kind = "merge"
  /\ Free(V(n))
  /\ \E i \in 1..Len(Unit[n].ins) :
       /\ Has(n, i)
       /\ slot' = Move(slot, {<<n, i>>}, V(n), Tok(n, i))
  /\ UNCHANGED <<op, buf, fed, outs>>
  /\ UNCHANGED passVars

\* handshake.mux: the select token s picks data operand s and only that
\* operand is consumed.
FireMux(n) ==
  /\ Unit[n].kind = "mux"
  /\ Has(n, 1)
  /\ Has(n, Tok(n, 1) + 2)
  /\ Free(V(n))
  /\ slot' = Move(slot, {<<n, 1>>, <<n, Tok(n, 1) + 2>>}, V(n),
                  Tok(n, Tok(n, 1) + 2))
  /\ UNCHANGED <<op, buf, fed, outs>>
  /\ UNCHANGED passVars

\* handshake.join: one control token from one token of every operand.
FireJoin(n) ==
  /\ Unit[n].kind = "join"
  /\ AllIn(n)
  /\ Free(V(n))
  /\ slot' = Move(slot, InsOf(n), V(n), "none")
  /\ UNCHANGED <<op, buf, fed, outs>>
  /\ UNCHANGED passVars

\* handshake.buffer seq: a token enters while a slot is empty ...
BufferIn(n) ==
  /\ Unit[n].kind = "buffer"
  /\ Has(n, 1)
  /\ Len(buf[n]) < Unit[n].attr.slots
  /\ buf' = [buf EXCEPT ![n] = Append(@, Tok(n, 1))]
  /\ slot' = [slot EXCEPT ![<<n, 1>>] = <<>>]
  /\ UNCHANGED <<op, fed, outs>>
  /\ UNCHANGED passVars

\* ... and the oldest token leaves.
BufferOut(n) ==
  /\ Unit[n].kind = "buffer"
  /\ buf[n] # <<>>
  /\ Free(V(n))
  /\ slot' = Move(slot, {}, V(n), Head(buf[n]))
  /\ buf' = [buf EXCEPT ![n] = Tail(@)]
  /\ UNCHANGED <<op, fed, outs>>
  /\ UNCHANGED passVars

\* The consumer of the unit takes the token of output i (operand i of the
\* handshake.return, i.e. result i - 1 of the InstanceOp).
Consume(i) ==
  /\ i \in DOMAIN outs
  /\ Has(ReturnNode(Unit), i)
  /\ Len(outs[i]) < MaxOut
  /\ outs' = [outs EXCEPT ![i] = Append(@, Tok(ReturnNode(Unit), i))]
  /\ slot' = [slot EXCEPT ![<<ReturnNode(Unit), i>>] = <<>>]
  /\ UNCHANGED <<op, buf, fed>>
  /\ UNCHANGED passVars

\* The state of a freshly built unit u of operator o.
UnitInit(o, u) ==
  /\ op = o
  /\ slot = [x \in Operands(u) |-> <<>>]
  /\ buf = [n \in Buffers(u) |-> BufferInit(u[n].attr.initValues)]
  /\ fed = [a \in Args(u) |-> <<>>]
  /\ outs = [i \in 1..Len(u[ReturnNode(u)].ins) |-> <<>>]

UnitIdle ==
  /\ op = [kind |-> "none"]
  /\ slot = <<>>
  /\ buf = <<>>
  /\ fed = <<>>
  /\ outs = <<>>

(***************************************************************************)
(* Fork and sink materialization.                                          *)
(*                                                                         *)
(* The regions of the finished module are kept with structured node ids,   *)
(* [n, f, i, j]: f = "op" is node n of the region as built; f = "fork" and *)
(* f = "sink" are the fork and the sink put on result i of node n;         *)
(* f = "forksink" is a sink put on result j of that fork.                  *)
(***************************************************************************)
OpId(n) == [n |-> n, f |-> "op", i |-> 0, j |-> 0]
ForkId(v) == [n |-> v[1].n, f |-> "fork", i |-> v[2], j |-> 0]
SinkId(v) ==
  IF v[1].f = "op"
    THEN [n |-> v[1].n, f |-> "sink", i |-> v[2], j |-> 0]
    ELSE [n |-> v[1].n, f |-> "forksink", i |-> v[1].i, j |-> v[2]]

\* The region g as built, under structured ids.
Lift(g) ==
  [id \in {OpId(n) : n \in DOMAIN g} |->
     [kind |-> g[id.n].kind,
      ins |-> [k \in 1..Len(g[id.n].ins) |->
                 <<OpId(g[id.n].ins[k][1]), g[id.n].ins[k][2]>>],
      attr |-> g[id.n].attr]]

\* op->getNumResults()
NumResults(node) ==
  CASE node.kind \in {"return", "sink"} -> 0
    [] node.kind \in {"unpack", "cond_br"} -> 2
    [] node.kind \in {"instance", "fork"} -> node.attr.nres
    [] OTHER -> 1

\* The block arguments and the operation results of a region.
Values(g) ==
  UNION {{<<id, i>> : i \in 0..(NumResults(g[id]) - 1)} : id \in DOMAIN g}

\* The uses U of a value, in some fixed order.
RECURSIVE UseList(_)
UseList(U) ==
  IF U = {} THEN <<>>
  ELSE LET x == CHOOSE x \in U : TRUE IN <<x>> \o UseList(U \ {x})

NeedFork_AnyUse(g) ==
  {v \in Values(g) : g[v[1]].kind # "fork" /\ Cardinality(Uses(g, v)) > 0}

\* addForkOps: the values with several uses, results of forks excepted
\* ("don't add Forks to Forks").
NeedFork(g) ==
  {v \in Values(g) : g[v[1]].kind # "fork" /\ Cardinality(Uses(g, v)) > 1}

\* addForkOps: insertFork on every such value: a fork with one result per
\* use, each use rewired to its own fork result.
addForkOps(g) ==
  LET F == NeedFork(g)
      order == [v \in F |-> UseList(Uses(g, v))]
      \* the value operand k of node id reads after the rewiring
      rewired(id, k) ==
        LET v == g[id].ins[k] IN
          IF v \in F
            THEN <<ForkId(v),
                   (CHOOSE p \in DOMAIN order[v] : order[v][p] = <<id, k>>) - 1>>
            ELSE v
  IN [id \in DOMAIN g \cup {ForkId(v) : v \in F} |->
        IF id \in DOMAIN g
          THEN [g[id] EXCEPT !.ins = [k \in 1..Len(g[id].ins) |-> rewired(id, k)]]
          ELSE LET v == CHOOSE v \in F : ForkId(v) = id IN
                 [kind |-> "fork", ins |-> <<v>>,
                  attr |-> [nres |-> Cardinality(Uses(g, v))]]]

\* addSinkOps: a sink on every value without a use.
addSinkOps(g) ==
  LET Z == {v \in Values(g) : Uses(g, v) = {}} IN
    [id \in DOMAIN g \cup {SinkId(v) : v \in Z} |->
       IF id \in DOMAIN g THEN g[id]
       ELSE LET v == CHOOSE v \in Z : SinkId(v) = id IN
              [kind |-> "sink", ins |-> <<v>>, attr |-> NoAttr]]

\* verifyAllValuesHasOneUse
verifyAllValuesHasOneUse(g) ==
  \A v \in Values(g) : Cardinality(Uses(g, v)) = 1

\* res.replaceAllUsesWith(to) for every result res of node f.
replaceAllUsesWith_Keep(g, f, to) == g

replaceAllUsesWith(g, f, to) ==
  [id \in DOMAIN g |->
     [g[id] EXCEPT !.ins = [k \in 1..Len(g[id].ins) |->
                             IF g[id].ins[k][1] = f THEN to
                             ELSE g[id].ins[k]]]]

\* op.erase()
erase(g, id) == [x \in DOMAIN g \ {id} |-> g[x]]

\* r.getOps<OpTy>()
getOps(g, kind) == {id \in DOMAIN g : g[id].kind = kind}

\* dematerializeForksAndSinks, one step per iteration of its two loops; the
\* region is mod.region, the forks erased so far are mod.erased, and the
\* order in which the loops meet the operations of the block is left open.
EraseSink ==
  /\ pc = "sinks"
  /\ \E sinkOp \in getOps(mod.region, "sink") :
       mod' = [mod EXCEPT !.region = erase(@, sinkOp)]
  /\ UNCHANGED <<pc, symbols, usedNames, dangling, synth>>
  /\ UNCHANGED unitVars

SinksErased ==
  /\ pc = "sinks"
  /\ getOps(mod.region, "sink") = {}
  /\ pc' = "forks"
  /\ UNCHANGED <<symbols, usedNames, dangling, synth, mod>>
  /\ UNCHANGED unitVars

EraseFork ==
  /\ pc = "forks"
  /\ \E forkOp \in getOps(mod.region, "fork") :
       mod' = [mod EXCEPT
                 !.region = erase(replaceAllUsesWith(@, forkOp, @[forkOp].ins[1]),
                                  forkOp),
                 !.erased = Append(@, forkOp)]
  /\ UNCHANGED <<pc, symbols, usedNames, dangling, synth>>
  /\ UNCHANGED unitVars

ForksErased ==
  /\ pc = "forks"
  /\ getOps(mod.region, "fork") = {}
  /\ pc' = "dematerialized"
  /\ UNCHANGED <<symbols, usedNames, dangling, synth, mod>>
  /\ UNCHANGED unitVars

dematerializeForksAndSinks ==
  EraseSink \/ SinksErased \/ EraseFork \/ ForksErased

(***************************************************************************)
(* StreamTypeConverter.  A type is written in prefix form as a sequence of *)
(* words: <<"i64">>, <<"none">>, <<"tuple2", "i64", "i1">> for             *)
(* tuple<i64, i1>, <<"stream", "i64">> for !stream.stream<i64>.            *)
(***************************************************************************)
StreamType(elementType) == <<"stream">> \o elementType
TupleType(a, b) == <<"tuple2">> \o a \o b

ElementTypes ==
  {<<"i1">>, <<"i32">>, <<"i64">>, <<"none">>, TupleType(<<"i64">>, <<"i1">>)}

\* The types converted: the element types, the streams of them and a
\* stream of streams.
Types ==
  ElementTypes \cup {StreamType(t) : t \in ElementTypes}
    \cup {StreamType(StreamType(<<"i64">>))}

\* addConversion([](Type type) { return type; })
IdentityConversion(type) == [applies |-> TRUE, ok |-> TRUE, res |-> <<type>>]

\* addConversion([](StreamType type, SmallVectorImpl<Type> &res) ...): does
\* not apply to a type that is not a StreamType.
StreamConversion(type) ==
  IF Head(type) = "stream"
    THEN [applies |-> TRUE, ok |-> TRUE,
          res |-> <<TupleType(Tail(type), <<"i1">>), <<"none">>>>]
    ELSE [applies |-> FALSE, ok |-> FALSE, res |-> <<>>]

convertType_RegistrationOrder(type) ==
  IF IdentityConversion(type).applies
    THEN IdentityConversion(type) ELSE StreamConversion(type)

\* TypeConverter::convertType: the conversions are tried from the one
\* registered last to the one registered first.
convertType(type) ==
  IF StreamConversion(type).applies
    THEN StreamConversion(type) ELSE IdentityConversion(type)

(***************************************************************************)
(* The conversion of a module.                                             *)
(*                                                                         *)
(* The module holds one function, main, over streams.  A stream value of   *)
(* the input program is <<0, j>>, the j-th argument of main, or <<i, j>>,  *)
(* the j-th result of its i-th operation.  The lowered body of main is a   *)
(* region like the regions of the units, with instance and cast nodes.     *)
(***************************************************************************)
MainName == <<"m","a","i","n">>

\* Names of the nodes of the lowered main.
MainTupleArgs == <<"in1", "in2">>
MainCtrlArgs == <<"in1Ctrl", "in2Ctrl">>
ArgCasts == <<"in1Cast", "in2Cast">>
Instances == <<"inst1", "inst2", "inst3">>
ResultCasts ==
  << <<"cast1a", "cast1b">>, <<"cast2a", "cast2b">>, <<"cast3a", "cast3b">> >>

\* op->getName().getStringRef()
OperationName(o) ==
  CASE o.kind = "map" -> StreamMap
    [] o.kind = "filter" -> StreamFilter
    [] o.kind = "reduce" -> StreamReduce
    [] o.kind = "create" -> StreamCreate
    [] o.kind = "split" -> StreamSplit
    [] o.kind = "combine" -> StreamCombine
    [] o.kind = "sink" -> StreamSink

\* op->getResultTypes(): all of stream type.
NumStreamResults(o) ==
  CASE o.kind = "sink" -> 0
    [] o.kind = "split" -> Len(o.fns)
    [] OTHER -> 1

StreamOp(o, args) == [o |-> o, args |-> args]

StreamOfI32 == StreamType(<<"i32">>)

\* The input programs followed.
Programs ==
  { \* create([5, 6]) -> map(x + 1) -> sink
    [nargs |-> 0, inputs |-> <<>>,
     ops |-> <<StreamOp([kind |-> "create", values |-> <<5, 6>>], <<>>),
               StreamOp([kind |-> "map", fn |-> "inc"], << <<1, 1>> >>),
               StreamOp([kind |-> "sink"], << <<2, 1>> >>)>>,
     ret |-> <<>>],
    \* main(s): return reduce(filter(s))
    [nargs |-> 1, inputs |-> <<StreamOfI32>>,
     ops |-> <<StreamOp([kind |-> "filter", fn |-> "isOdd"], << <<0, 1>> >>),
               StreamOp([kind |-> "reduce", fn |-> "add", initValue |-> 0],
                        << <<1, 1>> >>)>>,
     ret |-> << <<2, 1>> >>],
    \* main(s, t): return both results of split(combine(s, t))
    [nargs |-> 2, inputs |-> <<StreamOfI32, StreamOfI32>>,
     ops |-> <<StreamOp([kind |-> "combine", arity |-> 2, fn |-> "add"],
                        << <<0, 1>>, <<0, 2>> >>),
               StreamOp([kind |-> "split", fns |-> <<"inc", "double">>],
                        << <<1, 1>> >>)>>,
     ret |-> << <<2, 2>>, <<2, 1>> >>],
    \* main(s): return map(map(s)), and s is also mapped a third time
    [nargs |-> 1, inputs |-> <<StreamOfI32>>,
     ops |-> <<StreamOp([kind |-> "map", fn |-> "inc"], << <<0, 1>> >>),
               StreamOp([kind |-> "map", fn |-> "double"], << <<1, 1>> >>),
               StreamOp([kind |-> "map", fn |-> "double"], << <<0, 1>> >>)>>,
     ret |-> << <<2, 1>>, <<3, 1>> >>],
    \* main(s): return s
    [nargs |-> 1, inputs |-> <<StreamOfI32>>, ops |-> <<>>,
     ret |-> << <<0, 1>> >>] }

\* Functions without stream operations that return some of their arguments,
\* streams or not.
FuncPrograms ==
  UNION {{[nargs |-> n, inputs |-> ts, ops |-> <<>>, ret |-> SubSeq(rs, 1, r)] :
            ts \in [1..n -> {StreamOfI32, <<"i32">>}],
            r \in 0..MaxOps, rs \in [1..MaxOps -> {<<0, k>> : k \in 1..n}]} :
         n \in 1..MaxOps}

\* The value the adaptor hands to a pattern for stream value ref: the cast
\* that boxes its (tuple, control) pair.
Boxed(ref) ==
  IF ref[1] = 0 THEN V(ArgCasts[ref[2]]) ELSE V(ResultCasts[ref[1]][ref[2]])

\* The type of stream value or argument ref of program p.
TypeOf(p, ref) == IF ref[1] = 0 THEN p.inputs[ref[2]] ELSE StreamOfI32

\* The value the adaptor hands to a pattern for operand ref: an argument
\* that is not a stream is converted to itself.
Remapped(p, ref) ==
  IF Head(TypeOf(p, ref)) = "stream"
    THEN Boxed(ref)
    ELSE V(MainTupleArgs[ref[2]])

RECURSIVE Concat(_)
Concat(ss) == IF ss = <<>> THEN <<>> ELSE Head(ss) \o Concat(Tail(ss))

\* block->getArguments().back()
getBlockCtrlSignal(blockArgs) == Last(blockArgs)

getCtrlSignal_BlockOnly(g, blockArgs, operands) == getBlockCtrlSignal(blockArgs)

RECURSIVE getCtrlSignal(_, _, _)
getCtrlSignal(g, blockArgs, operands) ==
  LET fstOp == operands[1]
      def == g[fstOp[1]] IN
    IF def.kind = "arg" THEN getBlockCtrlSignal(blockArgs)
    ELSE IF def.kind = "instance" THEN <<fstOp[1], NumResults(def) - 1>>
    ELSE getCtrlSignal(g, blockArgs, def.ins)

\* castOp.getInputs() of the cast that defines oldOperand
resolveStreamOperand(g, oldOperand) == g[oldOperand[1]].ins

resolveNewOperands_NoCtrl(g, blockArgs, remappedOperands) ==
  Concat([k \in 1..Len(remappedOperands) |->
            resolveStreamOperand(g, remappedOperands[k])])

resolveNewOperands(g, blockArgs, remappedOperands) ==
  Concat([k \in 1..Len(remappedOperands) |->
            resolveStreamOperand(g, remappedOperands[k])])
    \o <<IF Len(remappedOperands) = 0
           THEN Last(blockArgs)
           ELSE getCtrlSignal(g, blockArgs, remappedOperands)>>

\* createFuncOp: the region becomes the body of a function called name, of
\* the region's argument types and the terminator's operand types.
createFuncOp(r, name, i) ==
  [name |-> name, of |-> i, body |-> r,
   nargs |-> Cardinality(Args(r)), nres |-> Len(r[ReturnNode(r)].ins)]

\* replaceWithInstance: an instance of func on newOperands, and per stream
\* result of the operation a cast of the next two instance results.
replaceWithInstance(g, i, o, func, newOperands) ==
  (Instances[i] :>
     Node("instance", newOperands,
          [callee |-> func.name, nres |-> func.nres, of |-> i]))
  @@ [c \in {ResultCasts[i][j] : j \in 1..NumStreamResults(o)} |->
        LET j == CHOOSE j \in 1..NumStreamResults(o) : ResultCasts[i][j] = c IN
          Node("cast",
               <<R(Instances[i], 2 * (j - 1)), R(Instances[i], 2 * (j - 1) + 1)>>,
               NoAttr)]
  @@ g

\* FuncOpLowering on main: every stream argument becomes a tuple and a
\* control argument, boxed by a cast for the not yet converted users, every
\* other argument stays, and a control argument is added at the end.  The
\* new function, mod.func, has the name of the old one.
FuncOpLowering ==
  /\ pc = "converting"
  /\ mod.next = 0
  /\ LET n == mod.prog.nargs
         isStream(k) == Head(mod.prog.inputs[k]) = "stream"
         streams == {k \in 1..n : isStream(k)}
         newResults ==
           Concat([k \in 1..Len(mod.prog.ret) |->
                     convertType(TypeOf(mod.prog, mod.prog.ret[k])).res])
             \o <<<<"none">>>>
         sig ==
           Concat([k \in 1..n |-> convertType(mod.prog.inputs[k]).res])
             \o <<<<"none">>>>
     IN mod' = [mod EXCEPT
         !.next = 1,
         !.func = [name |-> MainName, inputs |-> sig, results |-> newResults],
         !.args = Concat([k \in 1..n |->
                            IF isStream(k)
                              THEN <<V(MainTupleArgs[k]), V(MainCtrlArgs[k])>>
                              ELSE <<V(MainTupleArgs[k])>>])
                    \o <<V("ctrl")>>,
         !.main =
           [a \in {MainTupleArgs[k] : k \in streams} |-> Arg("tuple")]
           @@ [a \in {MainTupleArgs[k] : k \in (1..n) \ streams} |-> Arg("i32")]
           @@ [a \in {MainCtrlArgs[k] : k \in streams} |-> Arg("none")]
           @@ ("ctrl" :> Arg("init"))
           @@ [c \in {ArgCasts[k] : k \in streams} |->
                 LET k == CHOOSE k \in 1..n : ArgCasts[k] = c IN
                   Node("cast", <<V(MainTupleArgs[k]), V(MainCtrlArgs[k])>>,
                        NoAttr)]]
  /\ UNCHANGED <<pc, symbols, usedNames, dangling, synth>>
  /\ UNCHANGED unitVars

\* One StreamOpLowering pattern applied to the next operation of main.
StreamOpLowering ==
  /\ pc = "converting"
  /\ mod.next \in 1..Len(mod.prog.ops)
  /\ LET i == mod.next
         o == mod.prog.ops[i].o
         remappedOperands ==
           [k \in 1..Len(mod.prog.ops[i].args) |-> Boxed(mod.prog.ops[i].args[k])]
         operands ==
           IF o.kind = "create"
             THEN <<getBlockCtrlSignal(mod.args)>>
             ELSE resolveNewOperands(mod.main, mod.args, remappedOperands)
         name == getUniqueSymName(usedNames, OperationName(o))
         newFuncOp == createFuncOp(UnitOf[o], name, i)
     IN /\ usedNames' = addSymbol(usedNames, name)
        /\ synth' = Append(synth, [op |-> OperationName(o), name |-> name])
        /\ mod' = [mod EXCEPT
             !.next = i + 1,
             !.units = Append(@, newFuncOp),
             !.main = replaceWithInstance(@, i, o, newFuncOp, operands)]
  /\ UNCHANGED <<pc, symbols, dangling>>
  /\ UNCHANGED unitVars

\* ReturnOpLowering, the last pattern applied: applyPartialConversion
\* succeeds.  resolveStreamOperand reads the inputs of the cast that defines
\* the operand; for an operand that is not a stream the assertion on its
\* type fails, and without assertions the cast is a null operation whose
\* inputs are read: the run is aborted, or it goes on with what the read
\* gave, here nothing.
ReturnOpLowering ==
  /\ pc = "converting"
  /\ mod.next = Len(mod.prog.ops) + 1
  /\ LET remappedOperands ==
           [k \in 1..Len(mod.prog.ret) |-> Remapped(mod.prog, mod.prog.ret[k])]
         streams ==
           \A k \in 1..Len(remappedOperands) :
             mod.main[remappedOperands[k][1]].kind = "cast"
     IN \E aborted \in (IF streams THEN {FALSE} ELSE BOOLEAN) :
          /\ mod' = [mod EXCEPT
               !.next = @ + 1,
               !.main =
                 IF aborted THEN @
                 ELSE ("return" :>
                         ReturnOp(resolveNewOperands(mod.main, mod.args,
                                                     remappedOperands))) @@ @]
          /\ pc' = IF aborted THEN "aborted" ELSE "converted"
  /\ UNCHANGED <<symbols, usedNames, dangling, synth>>
  /\ UNCHANGED unitVars

\* removeUnusedConversionCasts: every cast of the handshake functions is
\* erased.
removeUnusedConversionCasts ==
  /\ pc = "converted"
  /\ mod' = [mod EXCEPT
       !.main = [n \in {m \in DOMAIN mod.main : mod.main[m].kind # "cast"} |->
                   mod.main[n]]]
  /\ pc' = "cleaned"
  /\ UNCHANGED <<symbols, usedNames, dangling, synth>>
  /\ UNCHANGED unitVars

\* The handshake functions of the module: the units, inserted at the start
\* of the module in the order of their creation, then main.
HandshakeFuncs ==
  [k \in 1..(Len(mod.units) + 1) |->
     IF k <= Len(mod.units)
       THEN [name |-> mod.units[Len(mod.units) + 1 - k].name,
             body |-> Lift(mod.units[Len(mod.units) + 1 - k].body)]
       ELSE [name |-> MainName, body |-> Lift(mod.main)]]

materializeForksAndSinks_Skip(funcs) == [ok |-> TRUE, funcs |-> funcs]

\* materializeForksAndSinks: per function addForkOps, addSinkOps and
\* verifyAllValuesHasOneUse; failure of a verification is failure.
materializeForksAndSinks(funcs) ==
  LET done == [k \in DOMAIN funcs |->
                 [funcs[k] EXCEPT !.body = addSinkOps(addForkOps(@))]]
  IN [ok |-> \A k \in DOMAIN funcs : verifyAllValuesHasOneUse(done[k].body),
      funcs |-> done]

\* The last step of runOnOperation.
Materialize ==
  /\ pc = "cleaned"
  /\ LET res == materializeForksAndSinks(HandshakeFuncs) IN
       /\ mod' = [mod EXCEPT !.funcs = res.funcs]
       /\ pc' = IF res.ok THEN "done" ELSE "failed"
  /\ UNCHANGED <<symbols, usedNames, dangling, synth>>
  /\ UNCHANGED unitVars

\* isStreamOp: the operations whose regions transformStdRegions lowers.
isStreamOp(o) == o.kind \in {"map", "filter", "reduce", "split", "combine"}

\* The run of the pass on a module whose main may hold an operation body
\* the delegate cannot lower (mod.badBody is its operation, 0 for none) and
\* may hold an operation of the func dialect that no pattern converts
\* (mod.illegal).
transformStdRegions_IgnoreFailure ==
  /\ pc = "entry"
  /\ pc' = "start"
  /\ UNCHANGED <<symbols, usedNames, dangling, synth, mod>>
  /\ UNCHANGED unitVars

\* transformStdRegions: lowerRegion, dematerializeForksAndSinks and
\* removeBasicBlocks on every region of every stream operation; the first
\* failure of lowerRegion is the failure of the stage.
transformStdRegions ==
  /\ pc = "entry"
  /\ pc' = IF \E i \in 1..Len(mod.prog.ops) :
               isStreamOp(mod.prog.ops[i].o) /\ i = mod.badBody
            THEN "failed" ELSE "start"
  /\ UNCHANGED <<symbols, usedNames, dangling, synth, mod>>
  /\ UNCHANGED unitVars

\* applyPartialConversion, pattern by pattern, on a module all of whose
\* operations have a pattern.
applyPartialConversion ==
  /\ ~mod.illegal
  /\ (FuncOpLowering \/ StreamOpLowering \/ ReturnOpLowering)

\* applyPartialConversion fails on an operation that stays illegal.
ConversionFails ==
  /\ pc = "converting"
  /\ mod.illegal
  /\ pc' = "failed"
  /\ UNCHANGED <<symbols, usedNames, dangling, synth, mod>>
  /\ UNCHANGED unitVars

\* typeConverter->convertTypes(types, results): fails when the conversion
\* of a type does, and otherwise appends the converted types in order.
convertTypes ==
  /\ pc = "types"
  /\ pc' = "converted types"
  /\ mod' = [mod EXCEPT
       !.ok = \A k \in 1..Len(mod.types) : convertType(mod.types[k]).ok,
       !.results = Concat([k \in 1..Len(mod.types) |->
                             convertType(mod.types[k]).res])]
  /\ UNCHANGED <<symbols, usedNames, dangling, synth>>
  /\ UNCHANGED unitVars

(***************************************************************************)
(* Specifications.                                                         *)
(***************************************************************************)
\* The pass, as far as the synthesized names go.
UniqInit == PassInit /\ UnitIdle
SpecUniq == UniqInit /\ [][PassNext]_vars

\* The environment of a unit with one input stream supplies tokens.
FeedNext ==
  \/ \E a \in Nodes("arg"), d \in Data, e \in I1 : FeedPayload(a, d, e)
  \/ \E a \in Nodes("arg") : FeedStreamCtrl(a)
  \/ \E a \in Nodes("arg") : FeedInitCtrl(a)

MapFire ==
  \/ \E i \in DOMAIN outs : Consume(i)
  \/ \E n \in Nodes("unpack") : FireUnpack(n)
  \/ \E n \in Nodes("body") : FireBody(n)
  \/ \E n \in Nodes("pack") : FirePack(n)
MapNext == FeedNext \/ MapFire
MapInit == PassIdle /\ \E o \in MapOps : UnitInit(o, MapOpLowering(o))
SpecMap == MapInit /\ [][MapNext]_vars

FilterFire ==
  \/ \E i \in DOMAIN outs : Consume(i)
  \/ \E n \in Nodes("unpack") : FireUnpack(n)
  \/ \E n \in Nodes("body") : FireBody(n)
  \/ \E n \in Nodes("pack") : FirePack(n)
  \/ \E n \in Nodes("ori") : FireOrI(n)
  \/ \E n \in Nodes("cond_br") : FireCondBr(n)
FilterNext == FeedNext \/ FilterFire
FilterInit == PassIdle /\ \E o \in FilterOps : UnitInit(o, FilterOpLowering(o))
SpecFilter == FilterInit /\ [][FilterNext]_vars

ReduceFire ==
  \/ \E i \in DOMAIN outs : Consume(i)
  \/ \E n \in Nodes("unpack") : FireUnpack(n)
  \/ \E n \in Nodes("body") : FireBody(n)
  \/ \E n \in Nodes("pack") : FirePack(n)
  \/ \E n \in Nodes("cond_br") : FireCondBr(n)
  \/ \E n \in Nodes("constant") : FireConstant(n)
  \/ \E n \in Nodes("mux") : FireMux(n)
  \/ \E n \in Nodes("buffer") : BufferIn(n)
  \/ \E n \in Nodes("buffer") : BufferOut(n)
ReduceNext == FeedNext \/ ReduceFire
ReduceInit == PassIdle /\ \E o \in ReduceOps : UnitInit(o, ReduceOpLowering(o))
SpecReduce == ReduceInit /\ [][ReduceNext]_vars

\* The Reduce units again, the one with the body (acc, x) -> x among them,
\* with payloads whose data are 1, 2, 3, ...
ReduceAgainNext ==
  \/ \E a \in Nodes("arg"), e \in I1 : FeedPayload(a, Len(fed[a]) + 1, e)
  \/ \E a \in Nodes("arg") : FeedStreamCtrl(a)
  \/ ReduceFire
ReduceAgainInit ==
  PassIdle /\ \E o \in ReduceOps \cup ReduceLastOps : UnitInit(o, ReduceOpLowering(o))
SpecReduceAgain == ReduceAgainInit /\ [][ReduceAgainNext]_vars

CreateFire ==
  \/ \E i \in DOMAIN outs : Consume(i)
  \/ \E n \in Nodes("constant") : FireConstant(n)
  \/ \E n \in Nodes("cond_br") : FireCondBr(n)
  \/ \E n \in Nodes("merge") : FireMerge(n)
  \/ \E n \in Nodes("cmpi_eq") : FireCmpI(n)
  \/ \E n \in Nodes("addi") : FireAddI(n)
  \/ \E n \in Nodes("pack") : FirePack(n)
  \/ \E n \in Nodes("buffer") : BufferIn(n)
  \/ \E n \in Nodes("buffer") : BufferOut(n)
CreateNext ==
  \/ \E a \in Nodes("arg") : FeedInitCtrl(a)
  \/ CreateFire
CreateInit == PassIdle /\ \E o \in CreateOps : UnitInit(o, CreateOpLowering(o))
SpecCreate == CreateInit /\ [][CreateNext]_vars

\* A Create unit of one literal that is given one input control token, in
\* a circuit that leaves no enabled node unfired for ever and whose
\* consumer takes what is offered (up to MaxOut activations, where the
\* model stops counting).
CreateFairNext ==
  \/ \E a \in Nodes("arg") : Feed(a, "none", 1)
  \/ CreateFire
CreateFairInit ==
  PassIdle /\ \E o \in CreateOps :
                Len(o.values) = 1 /\ UnitInit(o, CreateOpLowering(o))
SpecCreateFair ==
  CreateFairInit /\ [][CreateFairNext]_vars /\ WF_vars(CreateFire)

\* A Create unit whose input control receives a token more than once; the
\* control part of the region is the same for every literal list, and the
\* list followed here has one element.
FeedCtrlAgain(a) ==
  /\ Unit[a].attr.type = "init"
  /\ Feed(a, "none", MaxInit + 1)
CreateAgainNext ==
  \/ \E a \in Nodes("arg") : FeedCtrlAgain(a)
  \/ CreateFire
CreateAgainInit ==
  PassIdle /\ \E o \in CreateOps :
                Len(o.values) = 1 /\ UnitInit(o, CreateOpLowering(o))
SpecCreateAgain == CreateAgainInit /\ [][CreateAgainNext]_vars

SplitFire ==
  \/ \E i \in DOMAIN outs : Consume(i)
  \/ \E n \in Nodes("unpack") : FireUnpack(n)
  \/ \E n \in Nodes("body") : FireBody(n)
  \/ \E n \in Nodes("pack") : FirePack(n)
\* The init control only passes through a Split unit; its tokens are left
\* out here.
SplitFeed ==
  \/ \E a \in Nodes("arg"), d \in Data, e \in I1 : FeedPayload(a, d, e)
  \/ \E a \in Nodes("arg") : FeedStreamCtrl(a)
SplitNext == SplitFeed \/ SplitFire
SplitInit == PassIdle /\ \E o \in SplitOps : UnitInit(o, SplitOpLowering(o))
SpecSplit == SplitInit /\ [][SplitNext]_vars

CombineFire ==
  \/ \E i \in DOMAIN outs : Consume(i)
  \/ \E n \in Nodes("unpack") : FireUnpack(n)
  \/ \E n \in Nodes("join") : FireJoin(n)
  \/ \E n \in Nodes("body") : FireBody(n)
  \/ \E n \in Nodes("ori") : FireOrI(n)
  \/ \E n \in Nodes("pack") : FirePack(n)
\* The data of the next payload of input stream a: 1, 2, 3, ... on the
\* first stream and 10, 20, 30, ... on the second, so that a payload tells
\* its stream and its position.
CombineDatum(a) ==
  (Len(fed[a]) + 1) * (IF a = CombineTupleInNames[1] THEN 1 ELSE 10)

\* Payloads and stream-control tokens arrive on every input stream, in any
\* interleaving.
CombineFeed ==
  \/ \E a \in Nodes("arg"), e \in I1 : FeedPayload(a, CombineDatum(a), e)
  \/ \E a \in Nodes("arg") : FeedStreamCtrl(a)
CombineNext == CombineFeed \/ CombineFire
CombineInit ==
  PassIdle /\ \E o \in CombineOps : UnitInit(o, CombineOpLowering(o))
SpecCombine == CombineInit /\ [][CombineNext]_vars

\* One unit of each kind that has an init-control input and a body, with
\* payloads, stream-control tokens and init-control tokens arriving in any
\* interleaving; the data of the payloads are 1, 2, 3, ..., and each stream
\* input gets at most MaxInit + 1 activations.
InitCtrlOps ==
  {[kind |-> "map", fn |-> "inc"],
   [kind |-> "filter", fn |-> "isOdd"],
   [kind |-> "reduce", fn |-> "add", initValue |-> 0],
   [kind |-> "split", fns |-> <<"inc", "double">>],
   [kind |-> "combine", arity |-> 2, fn |-> "add"]}
InitCtrlFire ==
  \/ \E i \in DOMAIN outs : Consume(i)
  \/ \E n \in Nodes("unpack") : FireUnpack(n)
  \/ \E n \in Nodes("join") : FireJoin(n)
  \/ \E n \in Nodes("body") : FireBody(n)
  \/ \E n \in Nodes("ori") : FireOrI(n)
  \/ \E n \in Nodes("pack") : FirePack(n)
  \/ \E n \in Nodes("cond_br") : FireCondBr(n)
  \/ \E n \in Nodes("constant") : FireConstant(n)
  \/ \E n \in Nodes("mux") : FireMux(n)
  \/ \E n \in Nodes("buffer") : BufferIn(n)
  \/ \E n \in Nodes("buffer") : BufferOut(n)
InitCtrlNext ==
  \/ \E a \in Nodes("arg"), e \in I1 :
       Len(fed[a]) <= MaxInit /\ FeedPayload(a, Len(fed[a]) + 1, e)
  \/ \E a \in Nodes("arg") : Len(fed[a]) <= MaxInit /\ FeedStreamCtrl(a)
  \/ \E a \in Nodes("arg") : FeedInitCtrl(a)
  \/ InitCtrlFire
InitCtrlInit == PassIdle /\ \E o \in InitCtrlOps : UnitInit(o, Lower(o))
SpecInitCtrl == InitCtrlInit /\ [][InitCtrlNext]_vars

\* Regions with forks and sinks for dematerializeForksAndSinks: the region
\* of a unit with its forks and sinks put in, and the same with one more
\* fork of two results chained onto result 0 of one of the forks, the
\* second result of the chained fork going to a sink.
DematOps ==
  InitCtrlOps \cup {[kind |-> "create", values |-> <<5, 6>>], [kind |-> "sink"]}
ChainId(f) == [n |-> f.n, f |-> "chain", i |-> f.i, j |-> 0]
ChainSinkId(f) == [n |-> f.n, f |-> "chainsink", i |-> f.i, j |-> 0]
Chained(g, f) ==
  LET use == CHOOSE x \in Operands(g) : g[x[1]].ins[x[2]] = <<f, 0>> IN
    [id \in DOMAIN g \cup {ChainId(f), ChainSinkId(f)} |->
       CASE id = ChainId(f) ->
              [kind |-> "fork", ins |-> << <<f, 0>> >>, attr |-> [nres |-> 2]]
         [] id = ChainSinkId(f) ->
              [kind |-> "sink", ins |-> << <<ChainId(f), 1>> >>, attr |-> NoAttr]
         [] id = use[1] ->
              [g[id] EXCEPT !.ins[use[2]] = <<ChainId(f), 0>>]
         [] OTHER -> g[id]]
DematInit ==
  /\ pc = "sinks"
  /\ symbols = {}
  /\ usedNames = {}
  /\ dangling = FALSE
  /\ synth = <<>>
  /\ \E o \in DematOps :
       LET g == addSinkOps(addForkOps(Lift(UnitOf[o]))) IN
         \E r \in {g} \cup {Chained(g, f) : f \in getOps(g, "fork")} :
           mod = [before |-> r, region |-> r, erased |-> <<>>]
  /\ UnitIdle
SpecDemat == DematInit /\ [][dematerializeForksAndSinks]_vars

SinkFire == \E i \in DOMAIN outs : Consume(i)
SinkNext == FeedNext \/ SinkFire
SinkInit == PassIdle /\ \E o \in SinkOps : UnitInit(o, SinkOpLowering(o))
SpecSink == SinkInit /\ [][SinkNext]_vars

\* The pass over a module with one function over streams.
ModuleInit ==
  /\ pc = "start"
  /\ symbols \in {s \in SUBSET SymbolUniverse : MainName \in s}
  /\ usedNames = {}
  /\ dangling = FALSE
  /\ synth = <<>>
  /\ mod \in {[prog |-> p, next |-> 0, args |-> <<>>, main |-> <<>>,
               units |-> <<>>, funcs |-> <<>>, func |-> <<>>] : p \in Programs}
  /\ UnitIdle

ModuleNext ==
  \/ ConstructUniquer
  \/ populateStreamToHandshakePatterns
  \/ StorageReused
  \/ FuncOpLowering
  \/ StreamOpLowering
  \/ ReturnOpLowering
  \/ removeUnusedConversionCasts
  \/ Materialize

SpecModule == ModuleInit /\ [][ModuleNext]_vars

\* The pass on a module whose main is one of the programs or one of the
\* functions without stream operations.
FuncInit ==
  /\ pc = "start"
  /\ symbols = {MainName}
  /\ usedNames = {}
  /\ dangling = FALSE
  /\ synth = <<>>
  /\ mod \in {[prog |-> p, next |-> 0, args |-> <<>>, main |-> <<>>,
               units |-> <<>>, funcs |-> <<>>, func |-> <<>>] :
                p \in Programs \cup FuncPrograms}
  /\ UnitIdle
SpecFunc == FuncInit /\ [][ModuleNext]_vars

\* runOnOperation from its entry, failures included.
RunInit ==
  /\ pc = "entry"
  /\ symbols = {MainName}
  /\ usedNames = {}
  /\ dangling = FALSE
  /\ synth = <<>>
  /\ \E p \in Programs, b \in 0..MaxOps, i \in BOOLEAN :
       /\ b <= Len(p.ops)
       /\ mod = [prog |-> p, next |-> 0, args |-> <<>>, main |-> <<>>,
                 units |-> <<>>, funcs |-> <<>>, func |-> <<>>,
                 badBody |-> b, illegal |-> i]
  /\ UnitIdle

RunNext ==
  \/ transformStdRegions
  \/ ConstructUniquer
  \/ populateStreamToHandshakePatterns
  \/ StorageReused
  \/ applyPartialConversion
  \/ ConversionFails
  \/ removeUnusedConversionCasts
  \/ Materialize

SpecRun == RunInit /\ [][RunNext]_vars

\* The type converter applied to the operand or result types of an
\* operation.
TypesInit ==
  /\ pc = "types"
  /\ symbols = {}
  /\ usedNames = {}
  /\ dangling = FALSE
  /\ synth = <<>>
  /\ \E n \in 0..MaxOps, ts \in [1..MaxOps -> Types] :
       mod = [types |-> SubSeq(ts, 1, n), ok |-> FALSE, results |-> <<>>]
  /\ UnitIdle

SpecTypes == TypesInit /\ [][convertTypes]_vars

(***************************************************************************)
(* Properties.                                                             *)
(***************************************************************************)
IsPrefix(s, t) == Len(s) <= Len(t) /\ \A i \in 1..Len(s) : s[i] = t[i]

\* The payloads and stream-control tokens supplied to the input stream,
\* and the payloads and stream-control tokens the consumer has taken.
PayloadIn == fed["tupleIn"]
CtrlIn == fed["streamCtrl"]
PayloadOut == outs[1]
CtrlOut == outs[2]

\* Every payload supplied so far came with its stream-control token.
AllCtrlFed == Len(CtrlIn) >= Len(PayloadIn)

\* ---- SymbolUniquer ----

\* C1: all names returned by getUniqueSymName during one pass run are
\* pairwise distinct and none equals a symbol the module already defined.
C1_NamesUnique ==
  /\ \A i, j \in 1..Len(synth) : i # j => synth[i].name # synth[j].name
  /\ \A i \in 1..Len(synth) : synth[i].name \notin symbols

\* The op name with every '.' taken out.
StripDots(opName) == SelectSeq(opName, LAMBDA c : c # ".")

\* The op name with every '.' turned into '_'.
IsUnderscored(bare, opName) ==
  /\ Len(bare) = Len(opName)
  /\ \A i \in 1..Len(opName) :
       bare[i] = IF opName[i] = "." THEN "_" ELSE opName[i]

\* What a call of getUniqueSymName on op name o with base name bare must
\* do: return bare when it is free, else bare_k for the least k >= 1 with
\* bare_k free, and add just that name to the used set.
UniqueSymNameContract(bare, name) ==
  /\ bare \notin usedNames => name = bare
  /\ bare \in usedNames =>
       \E k \in 1..(Cardinality(usedNames) + 1) :
         /\ name = bare \o <<"_">> \o Decimal(k)
         /\ name \notin usedNames
         /\ \A j \in 1..(k - 1) : bare \o <<"_">> \o Decimal(j) \in usedNames
  /\ usedNames' = usedNames \cup {name}

\* C2 as stated: the base name is the kind name with its separators
\* removed.
C2_Original ==
  [][Len(synth') = Len(synth) + 1 =>
       UniqueSymNameContract(StripDots(Last(synth').op), Last(synth').name)]_vars

\* C2, amended: getUniqueSymName(op) returns the kind name with every '.'
\* replaced by '_' when that name is not in the used set, otherwise that
\* name followed by _k for the smallest k >= 1 not in the used set; the
\* returned name is in the used set right after the call and no other name
\* is added.
C2_UniqueSymName ==
  [][Len(synth') = Len(synth) + 1 =>
       \E bare \in {getBareOpName(o) : o \in OpNames} :
         /\ IsUnderscored(bare, Last(synth').op)
         /\ UniqueSymNameContract(bare, Last(synth').name)]_vars

\* A call that had to skip both stream_map and stream_map_1.
C2_Witness ==
  /\ Len(synth) >= 1
  /\ Last(synth).op = StreamMap
  /\ Last(synth).name =
       <<"s","t","r","e","a","m","_","m","a","p","_","2">>
  /\ Last(synth).name \in usedNames

\* ---- Create ----

\* C3: exactly one output activation of a Create unit has eos = 1, and it
\* is the (n+1)-th, n the length of the literal list.
C3_EosSingularity ==
  \A k \in 1..Len(PayloadOut) :
    (PayloadOut[k][2] = 1) <=> (k = Len(op.values) + 1)

\* The consumer has seen the eos activation and one activation after it.
C3_Witness ==
  /\ Len(fed["ctrlIn"]) >= 1
  /\ Len(PayloadOut) >= Len(op.values) + 2
  /\ PayloadOut[Len(op.values) + 1][2] = 1

\* C4 as stated: the list elements leave front to back, eos = 0 on the
\* first n-1 activations and eos = 1 on the n-th, which carries vn.
C4_Original ==
  \A k \in 1..Len(PayloadOut) :
    k <= Len(op.values) =>
      PayloadOut[k] = <<op.values[k], IF k = Len(op.values) THEN 1 ELSE 0>>

\* C4, amended: the list elements leave front to back, one per activation,
\* each with eos = 0; eos = 1 comes on the (n+1)-th activation, which
\* carries the constant 0 shifted into the data buffer: create([5,6,7])
\* emits (5,0), (6,0), (7,0), (0,1).
C4_ElementsThenEos ==
  \A k \in 1..Len(PayloadOut) :
    /\ k <= Len(op.values) => PayloadOut[k] = <<op.values[k], 0>>
    /\ k = Len(op.values) + 1 => PayloadOut[k] = <<0, 1>>

C4_Witness ==
  /\ op.values = <<5, 6, 7>>
  /\ Len(fed["ctrlIn"]) = 1
  /\ PayloadOut = <<<<5, 0>>, <<6, 0>>, <<7, 0>>, <<0, 1>>>>
  /\ Len(CtrlOut) = 4

\* ---- Map ----

\* C5: the i-th output payload of a Map unit is (f(data_i), eos_i); when
\* the unit has come to rest with every control token supplied, there is
\* one output per input.
C5_MapPayloads ==
  /\ Len(PayloadOut) <= Len(PayloadIn)
  /\ \A i \in 1..Len(PayloadOut) :
       PayloadOut[i] = <<Apply(op.fn, <<PayloadIn[i][1]>>), PayloadIn[i][2]>>
  /\ (AllCtrlFed /\ ~ENABLED MapFire) => Len(PayloadOut) = Len(PayloadIn)

C5_Witness ==
  /\ op.fn = "inc"
  /\ PayloadIn = <<<<1, 0>>, <<2, 1>>, <<2, 0>>>>
  /\ PayloadOut = <<<<2, 0>>, <<3, 1>>, <<3, 0>>>>

\* ---- Filter ----

\* The supplied payloads a Filter unit must forward.
Accepted(fn, payloads) ==
  SelectSeq(payloads, LAMBDA t : Apply(fn, <<t[1]>>) = 1 \/ t[2] = 1)

\* C6: the output payloads of a Filter unit are the input payloads with
\* p(d) = 1 or eos = 1, in input order and unchanged.
C6_FilterPayloads ==
  /\ IsPrefix(PayloadOut, Accepted(op.fn, PayloadIn))
  /\ (AllCtrlFed /\ ~ENABLED FilterFire) =>
       PayloadOut = Accepted(op.fn, PayloadIn)

\* The final eos payload is forwarded although the predicate is 0 on it.
C6_Witness ==
  /\ op.fn = "isOdd"
  /\ PayloadIn = <<<<2, 0>>, <<1, 0>>, <<2, 1>>>>
  /\ PayloadOut = <<<<1, 0>>, <<2, 1>>>>

\* C7: a Filter unit never lets out more stream-control tokens than
\* payloads it forwards: the control tokens taken from it, and the one
\* waiting at its output, are at most the accepted payloads supplied so
\* far; none when every payload supplied was suppressed.
C7_FilterCtrlGated ==
  Len(CtrlOut) + Len(slot[<<"newTerm", 2>>])
    <= Len(Accepted(op.fn, PayloadIn))

\* A suppressed activation went through and left no control token.
C7_Witness ==
  /\ op.fn = "isOdd"
  /\ PayloadIn = <<<<2, 0>>, <<1, 0>>>>
  /\ Len(CtrlIn) = 2
  /\ PayloadOut = <<<<1, 0>>>>
  /\ CtrlOut = <<"none">>
  /\ ~ENABLED FilterFire

\* ---- Reduce ----

\* Payloads supplied before the first one with eos = 1.
RECURSIVE BeforeEos(_)
BeforeEos(payloads) ==
  IF payloads = <<>> \/ Head(payloads)[2] = 1 THEN <<>>
  ELSE <<Head(payloads)>> \o BeforeEos(Tail(payloads))

NoEos(payloads) == \A i \in 1..Len(payloads) : payloads[i][2] = 0

\* eos = 0 on every payload but the last, which has eos = 1.
OneEosLast(payloads) ==
  /\ payloads # <<>>
  /\ Last(payloads)[2] = 1
  /\ NoEos(SubSeq(payloads, 1, Len(payloads) - 1))

RECURSIVE FoldLeft(_, _, _)
FoldLeft(fn, acc, payloads) ==
  IF payloads = <<>> THEN acc
  ELSE FoldLeft(fn, Apply(fn, <<acc, Head(payloads)[1]>>), Tail(payloads))

\* C8: fed eos = 0 payloads and then one eos = 1 payload, a Reduce unit
\* produces exactly two payloads, a value with eos = 0 and then the same
\* value with eos = 1, and one stream-control token for each.
C8_ValueThenEos ==
  OneEosLast(PayloadIn) =>
    /\ Len(PayloadOut) <= 2
    /\ Len(CtrlOut) <= 2
    /\ Len(PayloadOut) >= 1 => PayloadOut[1][2] = 0
    /\ Len(PayloadOut) = 2 =>
         PayloadOut[2] = <<PayloadOut[1][1], 1>>
    /\ (AllCtrlFed /\ ~ENABLED ReduceFire) =>
         Len(PayloadOut) = 2 /\ Len(CtrlOut) = 2

C8_Witness ==
  /\ PayloadIn = <<<<1, 0>>, <<2, 0>>, <<1, 1>>>>
  /\ PayloadOut = <<<<3, 0>>, <<3, 1>>>>
  /\ CtrlOut = <<"none", "none">>

\* C9: the value a Reduce unit puts out is the left fold of its body over
\* the payloads that came before the eos payload, from the identity.
C9_LeftFold ==
  \A k \in 1..Len(PayloadOut) :
    PayloadOut[k][1] = FoldLeft(op.fn, op.initValue, BeforeEos(PayloadIn))

\* 2 * (2 * 1 + 1) + 2 = 8: the fold in arrival order (the other order
\* gives 9).
C9_Witness ==
  /\ op.fn = "shl1_add"
  /\ PayloadIn = <<<<1, 0>>, <<2, 0>>, <<2, 1>>>>
  /\ PayloadOut = <<<<8, 0>>, <<8, 1>>>>

\* C10: before the first eos = 1 payload a Reduce unit has put out
\* nothing: no payload and no stream-control token was taken from it or
\* waits at its outputs.
C10_SilentBeforeEos ==
  NoEos(PayloadIn) =>
    /\ PayloadOut = <<>>
    /\ CtrlOut = <<>>
    /\ slot[<<"newTerm", 1>>] = <<>>
    /\ slot[<<"newTerm", 2>>] = <<>>

\* Three eos = 0 activations were consumed and folded: the accumulator,
\* 1 + 2 + 2, waits at the branch for the next eos flag.
C10_Witness ==
  /\ op.fn = "add"
  /\ PayloadIn = <<<<1, 0>>, <<2, 0>>, <<2, 0>>>>
  /\ Len(CtrlIn) = 3
  /\ slot[<<"dataBr", 2>>] = <<5>>
  /\ ~ENABLED ReduceFire

\* ---- Split ----

\* C11: every input activation (d, eos) of a Split unit with k body
\* results gives k output tuples: output stream j carries
\* (bodyResult_j(d), eos), in input order, and as many stream-control
\* copies of the stream-control token as were supplied; at rest, with
\* every control token supplied, every output stream has one tuple per
\* input tuple and one control token per input control token.
C11_SplitPayloads ==
  \A j \in 1..Len(op.fns) :
    /\ Len(outs[2 * j - 1]) <= Len(PayloadIn)
    /\ Len(outs[2 * j]) <= Len(CtrlIn)
    /\ \A i \in 1..Len(outs[2 * j - 1]) :
         outs[2 * j - 1][i] =
           <<Apply(op.fns[j], <<PayloadIn[i][1]>>), PayloadIn[i][2]>>
    /\ (AllCtrlFed /\ ~ENABLED SplitFire) =>
         /\ Len(outs[2 * j - 1]) = Len(PayloadIn)
         /\ Len(outs[2 * j]) = Len(CtrlIn)

\* One activation came out on both output streams, each with its control
\* token: 1 -> (2, 2) and 2 -> (3, 4).
C11_Witness ==
  /\ op.fns = <<"inc", "double">>
  /\ PayloadIn = <<<<1, 0>>, <<2, 1>>>>
  /\ outs[1] = <<<<2, 0>>, <<3, 1>>>>
  /\ outs[3] = <<<<2, 0>>, <<4, 1>>>>
  /\ Len(outs[2]) = 2 /\ Len(outs[4]) = 2

\* ---- Combine ----

\* The payloads and stream-control tokens supplied to input stream i.
CombinePayloadIn(i) == fed[CombineTupleInNames[i]]
CombineCtrlIn(i) == fed[CombineStreamCtrlNames[i]]

\* C12: the number of output activations a Combine unit has emitted,
\* payloads as well as stream-control tokens, is at most the number of
\* stream-control tokens received on each of its inputs.
C12_JoinBarrier ==
  \A i \in 1..op.arity :
    /\ Len(PayloadOut) <= Len(CombineCtrlIn(i))
    /\ Len(CtrlOut) <= Len(CombineCtrlIn(i))

\* C13: the j-th output payload of a Combine unit is the body applied to
\* the data of the j-th payload of every input, in input order, with the
\* OR of their eos flags; at rest, with every control token supplied, there
\* is one output for every index all inputs have reached.
C13_CombinePayloads ==
  /\ \A i \in 1..op.arity : Len(PayloadOut) <= Len(CombinePayloadIn(i))
  /\ \A j \in 1..Len(PayloadOut) :
       PayloadOut[j] =
         <<Apply(op.fn, [i \in 1..op.arity |-> CombinePayloadIn(i)[j][1]]),
           IF \E i \in 1..op.arity : CombinePayloadIn(i)[j][2] = 1
             THEN 1 ELSE 0>>
  /\ ( /\ \A i \in 1..op.arity :
            Len(CombineCtrlIn(i)) >= Len(CombinePayloadIn(i))
       /\ ~ENABLED CombineFire )
     => \E i \in 1..op.arity : Len(PayloadOut) = Len(CombinePayloadIn(i))

\* 2 * 1 + 10 = 12 with no eos, then 2 * 2 + 20 = 24 with the eos of the
\* first input alone.
C13_Witness ==
  /\ op.fn = "shl1_add"
  /\ CombinePayloadIn(1) = <<<<1, 0>>, <<2, 1>>>>
  /\ CombinePayloadIn(2) = <<<<10, 0>>, <<20, 0>>>>
  /\ PayloadOut = <<<<12, 0>>, <<24, 1>>>>

\* ---- Sink ----

\* C14 (the unit at work): a Sink unit has one output, the init control;
\* what leaves it are init-control tokens, one per init-control token
\* supplied (each is either out or waiting at the terminator), whatever
\* payloads and stream-control tokens were supplied; in the region the
\* builder made the payload and the stream control have no consumer, and
\* the consumers they have after materialization are discard nodes.
C14_SinkForwardsNothing ==
  /\ DOMAIN outs = {1}
  /\ \A i \in 1..Len(outs[1]) : outs[1][i] = "none"
  /\ Len(outs[1]) + Len(slot[<<"newTerm", 1>>]) = Len(fed["initCtrl"])
  /\ Uses(Unit, V("tupleIn")) = {}
  /\ Uses(Unit, V("streamCtrl")) = {}
  /\ LET g == addSinkOps(addForkOps(Lift(Unit))) IN
       \A a \in {"tupleIn", "streamCtrl"} :
         /\ Uses(g, <<OpId(a), 0>>) # {}
         /\ \A u \in Uses(g, <<OpId(a), 0>>) : g[u[1]].kind = "sink"

\* Three payloads and three stream-control tokens were swallowed, and the
\* one init-control token came out.
C14_Witness ==
  /\ Len(PayloadIn) = MaxIn
  /\ Len(CtrlIn) = MaxIn
  /\ Len(fed["initCtrl"]) = 1
  /\ outs[1] = <<"none">>

(***************************************************************************)
(* The finished module.                                                    *)
(***************************************************************************)
\* The nodes of kind k in region g.
OfKind(g, k) == {id \in DOMAIN g : g[id].kind = k}

\* C15: when the pass has completed successfully, every handshake function
\* of the module (every unit, and main) is there, and in each of them every
\* value has exactly one consumer: the consumer of a value that had several
\* as built is a fork with one result per consumer, and that of a value
\* that had none is a sink.
C15_OneConsumer ==
  pc = "done" =>
    /\ Len(mod.funcs) = Len(mod.prog.ops) + 1
    /\ \A k \in DOMAIN mod.funcs :
         LET pre == HandshakeFuncs[k].body
             post == mod.funcs[k].body
         IN /\ \A v \in Values(post) : Cardinality(Uses(post, v)) = 1
            /\ \A v \in Values(pre) :
                 /\ v \in Values(post)
                 /\ \A u \in Uses(post, v) :
                      CASE Cardinality(Uses(pre, v)) > 1 ->
                             /\ post[u[1]].kind = "fork"
                             /\ NumResults(post[u[1]]) = Cardinality(Uses(pre, v))
                        [] Cardinality(Uses(pre, v)) = 0 ->
                             post[u[1]].kind = "sink"
                        [] OTHER -> u \in Uses(pre, v)

\* create -> map -> sink has been converted; forks and sinks were needed, in
\* main and in the units.
C15_Witness ==
  /\ pc = "done"
  /\ mod.prog.nargs = 0
  /\ Len(mod.funcs) = 4
  /\ \A k \in DOMAIN mod.funcs :
       OfKind(mod.funcs[k].body, "fork") \cup OfKind(mod.funcs[k].body, "sink") # {}

\* C16: materializeForksAndSinks applied to the module the pass has
\* finished succeeds and returns the module it was given: no fork, no sink
\* is added, no operand is rewired.
C16_Idempotent ==
  pc = "done" =>
    materializeForksAndSinks(mod.funcs) = [ok |-> TRUE, funcs |-> mod.funcs]

\* The first materialization of the module with three maps did insert
\* forks and sinks.
C16_Witness ==
  /\ pc = "done"
  /\ Len(mod.prog.ops) = 3 /\ mod.prog.nargs = 1
  /\ \E k \in DOMAIN mod.funcs : OfKind(mod.funcs[k].body, "fork") # {}
  /\ \E k \in DOMAIN mod.funcs : OfKind(mod.funcs[k].body, "sink") # {}
  /\ mod.funcs # HandshakeFuncs

\* C17: every synthesized unit takes a tuple and a control per stream
\* operand of its operation and one init control more, and returns two
\* values per stream result of its operation and one control more: 2k + 1
\* inputs and 2r + 1 outputs.
C17_UnitInterface ==
  \A x \in DOMAIN mod.units :
    LET u == mod.units[x]
        e == mod.prog.ops[u.of]
        k == Len(e.args)
        r == NumStreamResults(e.o)
        ArgsOfType(ty) == {a \in Args(u.body) : u.body[a].attr.type = ty}
    IN /\ Cardinality(ArgsOfType("tuple")) = k
       /\ Cardinality(ArgsOfType("none")) = k
       /\ Cardinality(ArgsOfType("init")) = 1
       /\ u.nargs = 2 * k + 1
       /\ u.nres = 2 * r + 1

\* The tuple and the control that stand for stream value ref in the lowered
\* main.
Unboxed(ref) ==
  IF ref[1] = 0
    THEN <<V(MainTupleArgs[ref[2]]), V(MainCtrlArgs[ref[2]])>>
    ELSE <<R(Instances[ref[1]], 2 * (ref[2] - 1)),
           R(Instances[ref[1]], 2 * (ref[2] - 1) + 1)>>

\* Value v of region g is of NoneType.
IsControl(g, v) ==
  \/ g[v[1]].kind = "arg" /\ g[v[1]].attr.type \in {"none", "init"}
  \/ g[v[1]].kind = "instance" /\ (v[2] % 2 = 1 \/ v[2] = NumResults(g[v[1]]) - 1)

\* The operands resolveNewOperands gave to the node that replaces an
\* operation (or the return) with stream operands refs.
ResolvedAs(ins, refs) ==
  /\ Len(ins) = 2 * Len(refs) + 1
  /\ \A j \in 1..Len(refs) :
       /\ ins[2 * j - 1] = Unboxed(refs[j])[1]
       /\ ins[2 * j] = Unboxed(refs[j])[2]
  /\ IsControl(mod.main, Last(ins))
  /\ Len(refs) = 0 => Last(ins) = Last(mod.args)

Resolved ==
  {[node |-> Instances[i], refs |-> mod.prog.ops[i].args] :
     i \in {i \in 1..Len(mod.prog.ops) :
              i < mod.next /\ Len(mod.prog.ops[i].args) > 0}}
  \cup {[node |-> "return", refs |-> mod.prog.ret] :
          x \in {x \in {1} : mod.next = Len(mod.prog.ops) + 2
                               /\ Len(mod.prog.ret) > 0}}

\* C19: the control resolveNewOperands appended for a non-empty list of
\* streams is decided by the first stream alone: the last argument of the
\* block of main if it is an argument of main, the last result of the
\* instance if an instance produces it.  It is what getCtrlSignal returns on
\* the unboxed operands, and on the first of them alone; and on a boxed
\* stream getCtrlSignal returns what it returns on the operands of the cast.
C19_CtrlSignal ==
  /\ \A x \in Resolved :
       LET ins == mod.main[x.node].ins
           unboxed == SubSeq(ins, 1, Len(ins) - 1)
           fst == x.refs[1]
       IN /\ Last(ins) =
               IF fst[1] = 0
                 THEN Last(mod.args)
                 ELSE <<Instances[fst[1]],
                        NumResults(mod.main[Instances[fst[1]]]) - 1>>
          /\ Last(ins) = getCtrlSignal(mod.main, mod.args, unboxed)
          /\ Last(ins) = getCtrlSignal(mod.main, mod.args, <<unboxed[1]>>)
  /\ \A c \in DOMAIN mod.main :
       mod.main[c].kind = "cast" =>
         getCtrlSignal(mod.main, mod.args, <<V(c)>>)
           = getCtrlSignal(mod.main, mod.args, mod.main[c].ins)

\* main(s, t) = split(combine(s, t)) is converted: the combine instance got
\* the control argument of main, the split instance the last result of the
\* combine instance, the return the last result of the split instance.
C19_Witness ==
  /\ pc = "converted"
  /\ mod.prog.nargs = 2
  /\ Last(mod.main["inst1"].ins) = V("ctrl")
  /\ Last(mod.main["inst2"].ins) = R("inst1", 2)
  /\ Last(mod.main["return"].ins) = R("inst2", 4)
  /\ OfKind(mod.main, "cast") # {}

\* The functions of the module that callee names: units, or symbols the
\* module defined before the pass.
Callees(callee) ==
  {[unit |-> x] : x \in {x \in DOMAIN mod.units : mod.units[x].name = callee}}
  \cup {[symbol |-> n] : n \in {n \in symbols : n = callee /\ n # MainName}}

\* C20: when the pass has finished without failure, every operation of main
\* and its return are converted, main holds nothing but arguments,
\* instances, the handshake return and forks and sinks, and per original
\* operation there is exactly one instance, whose callee names exactly one
\* function of the module: the unit synthesized for that operation.
C20_FullyLowered ==
  pc = "done" =>
    /\ mod.next = Len(mod.prog.ops) + 2
    /\ \A n \in DOMAIN mod.main :
         mod.main[n].kind \in {"arg", "instance", "return"}
    /\ \A f \in DOMAIN mod.funcs :
         \A id \in DOMAIN mod.funcs[f].body :
           mod.funcs[f].body[id].kind # "cast"
    /\ Len(mod.units) = Len(mod.prog.ops)
    /\ \A i \in 1..Len(mod.prog.ops) :
         /\ Cardinality({n \in OfKind(mod.main, "instance") :
                           mod.main[n].attr.of = i}) = 1
         /\ \A n \in OfKind(mod.main, "instance") :
              mod.main[n].attr.of = i =>
                /\ Cardinality(Callees(mod.main[n].attr.callee)) = 1
                /\ \A c \in Callees(mod.main[n].attr.callee) :
                     /\ "unit" \in DOMAIN c
                     /\ mod.units[c.unit].of = i

\* ---- The stages of the pass ----

\* The changes of stage runOnOperation can make.
StageSteps ==
  {<<"entry", "start">>, <<"entry", "failed">>,
   <<"start", "constructed">>, <<"constructed", "converting">>,
   <<"converting", "converting">>, <<"converting", "converted">>,
   <<"converting", "failed">>,
   <<"converted", "cleaned">>,
   <<"cleaned", "done">>, <<"cleaned", "failed">>}

\* A step of the pass changes the stage as runOnOperation can.
StageStep == (<<pc, pc'>>) \in StageSteps

\* The module holds a stream operation whose body cannot be lowered.
BadBody ==
  \E i \in 1..Len(mod.prog.ops) :
    isStreamOp(mod.prog.ops[i].o) /\ i = mod.badBody

\* C21: the stages follow one another in the order body lowering,
\* conversion, cast removal, materialization; nothing follows a failure or
\* the end of the pass and no stage is entered twice; a body that cannot
\* be lowered fails the pass before the conversion starts, and an
\* operation that cannot be converted fails it before the casts are
\* removed.
C21_StageOrder ==
  /\ [][StageStep]_vars
  /\ [](BadBody => pc \in {"entry", "failed"})
  /\ [](mod.illegal => pc \notin {"converted", "cleaned", "done"})
  /\ [](pc = "failed" => BadBody \/ mod.illegal)

\* The pass has failed in the conversion of a module whose bodies were all
\* lowered.
C21_Witness ==
  /\ pc = "failed"
  /\ ~BadBody
  /\ mod.illegal
  /\ dangling

\* ---- Sequential buffers ----

\* The sequential buffers of the units synthesized so far: unit and node.
UnitBuffers ==
  UNION {{<<x, n>> : n \in Buffers(mod.units[x].body)} : x \in DOMAIN mod.units}

\* The attributes of buffer b.
BufferAttr(b) == mod.units[b[1]].body[b[2]].attr

Translated(type) ==
  IF type \in {StreamType(t) : t \in ElementTypes \cup {StreamType(<<"i64">>)}}
    THEN <<<<"tuple2">> \o SubSeq(type, 2, Len(type)) \o <<"i1">>, <<"none">>>>
    ELSE <<type>>

\* C23: the conversion of a list of types succeeds; a stream of T has become
\* the two types tuple<T, i1> and none, in that order, and every other type
\* has stayed what it was, in the order of the list.
C23_TypeTranslation ==
  pc = "converted types" =>
    /\ mod.ok
    /\ mod.results = Concat([k \in 1..Len(mod.types) |-> Translated(mod.types[k])])
    /\ \A t \in Types :
         /\ convertType(t).ok
         /\ Len(convertType(t).res) = IF t[1] = "stream" THEN 2 ELSE 1

\* (stream<i64>, i32) has become (tuple<i64, i1>, none, i32).
C23_Witness ==
  /\ pc = "converted types"
  /\ mod.types = <<<<"stream", "i64">>, <<"i32">>>>
  /\ mod.results = <<<<"tuple2", "i64", "i1">>, <<"none">>, <<"i32">>>>

\* ---- Create: the input control ----

\* The control tokens inside the loop of a Create unit: at the two operands
\* of the merge, at the input of the loop buffer and in the loop buffer.
LoopTokens ==
  Len(slot[<<"ctrl", 1>>]) + Len(slot[<<"ctrl", 2>>])
    + Len(slot[<<"ctrlBuf", 1>>]) + Len(buf["ctrlBuf"])

\* The input control tokens the gate useCtrl has dealt with.
Gated == Len(fed["ctrlIn"]) - Len(slot[<<"useCtrl", 2>>])

\* C24: in a Create unit at most one control token is in the loop, none
\* before the first input control token; the gate passes the first input
\* control token into the loop and no other, its other output having no
\* consumer: the condition it meets is 1 for the first token and 0 for
\* every later one; and before the first token has passed nothing is put
\* out.
C24_CtrlUsedOnce ==
  /\ LoopTokens <= 1
  /\ Gated = 0 => LoopTokens = 0 /\ outs[1] = <<>> /\ outs[2] = <<>>
  /\ Uses(Unit, falseResult("useCtrl")) = {}
  /\ Uses(Unit, trueResult("useCtrl")) = {<<"ctrl", 1>>}
  /\ \A i \in 1..Len(slot[<<"useCtrl", 1>>]) :
       slot[<<"useCtrl", 1>>][i] = IF Gated = 0 THEN 1 ELSE 0

\* Two input control tokens were supplied and both have passed the gate;
\* one token is in the loop and the unit has put out four activations.
C24_Witness ==
  /\ Len(fed["ctrlIn"]) = 2
  /\ Gated = 2
  /\ LoopTokens = 1
  /\ Len(outs[1]) = 4

\* ---- The init control of the units with a body ----

\* C25: in a Map, Filter, Reduce, Split or Combine unit the last operand of
\* the return is the init-control argument, which has no other consumer;
\* whatever payloads and stream-control tokens have arrived and whatever
\* the unit has done with them, every init-control token supplied is out
\* on the last output or waiting there for the consumer, and nothing else
\* comes out of the last output.
C25_InitCtrlForwarded ==
  LET last == Len(Unit["newTerm"].ins) IN
    /\ Unit["newTerm"].ins[last] = V("initCtrl")
    /\ Uses(Unit, V("initCtrl")) = {<<"newTerm", last>>}
    /\ \A i \in 1..Len(outs[last]) : outs[last][i] = "none"
    /\ Len(outs[last]) + Len(slot[<<"newTerm", last>>]) = Len(fed["initCtrl"])

\* A Reduce unit in the middle of its fold, nothing put out on its stream,
\* has passed on the init-control token.
C25_Witness ==
  /\ op.kind = "reduce"
  /\ fed["tupleIn"] = <<<<1, 0>>, <<2, 0>>>>
  /\ slot[<<"dataBr", 2>>] = <<3>>
  /\ outs = <<<<>>, <<>>, <<"none">>>>

\* ---- Dematerialization ----

\* The value a fork result stands for: the operand of the first fork of its
\* chain.
RECURSIVE Root(_, _)
Root(g, v) ==
  IF g[v[1]].kind = "fork" THEN Root(g, g[v[1]].ins[1]) ELSE v

Downstream(g) ==
  {f \in getOps(g, "fork") : g[g[f].ins[1][1]].kind = "fork"}

\* C26: when dematerializeForksAndSinks has run on a region, the region
\* has no sink and no fork, its operations are the other operations it had
\* before, each as it was, and each operand that was a fork result is now
\* the operand of the first fork of the chain of forks it came through,
\* every other operand being what it was.
C26_Dematerialized ==
  pc = "dematerialized" =>
    LET g == mod.region
        b == mod.before
    IN /\ getOps(g, "sink") = {}
       /\ getOps(g, "fork") = {}
       /\ DOMAIN g = {id \in DOMAIN b : b[id].kind \notin {"fork", "sink"}}
       /\ \A id \in DOMAIN g :
            /\ g[id].kind = b[id].kind
            /\ g[id].attr = b[id].attr
            /\ Len(g[id].ins) = Len(b[id].ins)
            /\ \A k \in 1..Len(g[id].ins) :
                 g[id].ins[k] = Root(b, b[id].ins[k])

\* A region with a fork on a fork result is dematerialized, the second
\* fork of the chain having been erased before the first.
C26_Witness ==
  /\ pc = "dematerialized"
  /\ \E f \in Downstream(mod.before) :
       \E i, j \in 1..Len(mod.erased) :
         /\ i < j
         /\ mod.erased[i] = f
         /\ mod.erased[j] = mod.before[f].ins[1][1]
  /\ \E id \in DOMAIN mod.region, k \in 1..3 :
       /\ k <= Len(mod.region[id].ins)
       /\ mod.before[id].ins[k][1] \in Downstream(mod.before)

\* ---- The lowered function ----

\* The operands of the return of main that are streams, in order.
IsStreamRef(ref) == Head(TypeOf(mod.prog, ref)) = "stream"
ReturnedStreams == SelectSeq(mod.prog.ret, IsStreamRef)

\* C27: once main is lowered, the new function has the name of main, its
\* input types are the translations of the input types of main in order
\* and then one none, its result types the translations of the result
\* types of main and then one none, and the last argument of its block is
\* the added control; once the return of main is lowered, the new return
\* has the tuple and the control of every returned stream in order and
\* then one control value, which is the last block argument when main
\* returns no stream.
C27_FunctionLowering ==
  /\ mod.next >= 1 =>
       /\ mod.func.name = MainName
       /\ mod.func.inputs =
            Concat([k \in 1..mod.prog.nargs |-> Translated(mod.prog.inputs[k])])
              \o <<<<"none">>>>
       /\ mod.func.results =
            Concat([k \in 1..Len(mod.prog.ret) |->
                      Translated(TypeOf(mod.prog, mod.prog.ret[k]))])
              \o <<<<"none">>>>
       /\ Len(mod.args) = Len(mod.func.inputs)
       /\ Last(mod.args) = V("ctrl")
       /\ mod.main["ctrl"] = Arg("init")
  /\ mod.next = Len(mod.prog.ops) + 2 =>
       /\ "return" \in DOMAIN mod.main
       /\ ResolvedAs(mod.main["return"].ins, ReturnedStreams)

\* ---- Reduce: one result ----

\* The payloads the unit has taken in: those supplied but the one that
\* still waits at the unpack.
Taken == SubSeq(PayloadIn, 1, Len(PayloadIn) - Len(slot[<<"unpack", 1>>]))

\* No accumulator: the buffer is empty and no value is on its way to it or
\* from it to the body.
AccumulatorEmpty ==
  /\ buf["buffer"] = <<>>
  /\ slot[<<"buffer", 1>>] = <<>>
  /\ slot[<<"dataBr", 2>>] = <<>>
  /\ slot[<<"lambda", 1>>] = <<>>

\* C28: a Reduce unit puts out two payloads and two stream-control tokens
\* at most.  Once it has
\* put them out it has taken in a payload with eos = 1 and none after it,
\* there is no accumulator, and nothing waits at or before its two stream
\* outputs, whatever has been supplied since: payloads with eos = 0 or 1
\* and their control tokens.
C28_OneShot ==
  /\ Len(PayloadOut) + Len(slot[<<"newTerm", 1>>]) <= 2
  /\ Len(CtrlOut) + Len(slot[<<"newTerm", 2>>]) <= 2
  /\ (Len(PayloadOut) = 2 /\ Len(CtrlOut) = 2) =>
       /\ Len(Taken) >= 1
       /\ Last(Taken)[2] = 1
       /\ NoEos(SubSeq(Taken, 1, Len(Taken) - 1))
       /\ AccumulatorEmpty
       /\ \A k \in 1..3 :
            slot[<<"tupleOut", k>>] \in {<<>>, <<0>>}
              /\ slot[<<"ctrlOut", k>>] \in {<<>>, <<0>>}
       /\ slot[<<"tupleOutVal", 1>>] = <<>>
       /\ slot[<<"tupleOutEOS", 1>>] = <<>>
       /\ slot[<<"dataBr", 1>>] = <<>>
       /\ slot[<<"ctrlBr", 1>>] = <<>>

\* ---- Create: no end ----

\* C29: once a Create unit of n literals has been given an input control
\* token, one control token is in its loop for good, and as long as the
\* consumer takes activations the unit offers them: every number of
\* activations the consumer is ready to take (MaxOut here) is reached.
\* Every activation after the n-th carries the 0 shifted into the data
\* buffer, and every activation after the (n+1)-th has eos = 0.
C29_NeverStops ==
  /\ (Len(fed["ctrlIn"]) >= 1) ~>
       (Len(PayloadOut) = MaxOut /\ Len(CtrlOut) = MaxOut)
  /\ [](Gated >= 1 => LoopTokens = 1)
  /\ []((Gated >= 1 /\ Len(PayloadOut) < MaxOut) => ENABLED CreateFire)
  /\ [](\A k \in 1..Len(PayloadOut) :
         /\ k > Len(op.values) => PayloadOut[k][1] = 0
         /\ k > Len(op.values) + 1 => PayloadOut[k][2] = 0)

\* create([5]) has put out (5,0), (0,1), (0,0), (0,0), and the control
\* token is still in the loop.
C29_Witness ==
  /\ op.values = <<5>>
  /\ Len(PayloadOut) = MaxOut
  /\ SubSeq(PayloadOut, 1, 4) = <<<<5, 0>>, <<0, 1>>, <<0, 0>>, <<0, 0>>>>
  /\ LoopTokens = 1

====
